---------------------------- MODULE Spec2Model ----------------------------
(***************************************************************************)
(* A model of the SPD decomposition trainer (spd/run_spd.py), of the       *)
(* parameter-component layers (spd/models/components.py) and of the TMS    *)
(* SPD models (spd/experiments/tms/models.py).                             *)
(*                                                                         *)
(* Tensors are functions over index sets with integer entries; a loss is   *)
(* kept as an exact fraction <<numerator, denominator>>.  Floating-point   *)
(* rounding is outside the model.  A nullable field holds None.            *)
(*                                                                         *)
(* The module holds one specification per part of the program:             *)
(*   SpecConfig     construction of a Config (validate_model) and the      *)
(*                  configuration-dependent assertions of an optimize step *)
(*   SpecTopk       the top-k mask computation of an optimize step         *)
(*   SpecForward    forward passes of the parameter-component layers       *)
(*   SpecParamMatch calc_param_match_loss                                  *)
(***************************************************************************)
EXTENDS Integers, Sequences, FiniteSets, TLC

VARIABLES
    \* --- Config construction and the step's assertions
    kwargs,         \* the keyword arguments given to Config(...), or None
    config,         \* the Config object that exists, or None
    config_error,   \* the message of the error raised by validate_model, or "ok"
    step_assert,    \* outcome of the assertions of one optimize step
    \* --- top-k mask computation
    tk,             \* inputs and result of the top-k mask part of a step
    \* --- forward passes
    fw,             \* inputs and results of layer forward passes
    \* --- parameter-match loss
    pm,             \* inputs and results of calc_param_match_loss
    \* --- loss functions and the learning rate
    fn,             \* inputs and result of a call of a loss or schedule function
    \* --- the optimize loop
    op              \* the state of a run of optimize

vars == <<kwargs, config, config_error, step_assert, tk, fw, pm, fn, op>>

cfgVars == <<kwargs, config, config_error, step_assert>>

\* Python's None; every nullable value of the model is a tuple or a record
None == <<>>

Idle == [phase |-> "idle"]

(***************************************************************************)
(* Bounds of the model.                                                    *)
(***************************************************************************)
\* topk values are the fractions n / TopkDen, n in 1..MaxTopkNum
TopkDen == 2
MaxTopkNum == 4
\* batch sizes 1..MaxBatch
MaxBatch == 2
\* n_instances in 1..MaxInstances, subnetworks k in 1..MaxK
MaxInstances == 2
MaxK == 3
\* a score tensor has at most MaxCells entries, each in 0..MaxScore
MaxCells == 4
MaxScore == 1
\* a layer with its input has at most MaxSlots entries (parameters and
\* inputs together), at most MaxNonzero of them nonzero
MaxSlots == 10
MaxNonzero == 3
\* layer dimensions (d_in, d_out, m) in 1..MaxDim
MaxDim == 2

(***************************************************************************)
(* Exact fractions <<num, den>>, den > 0.                                  *)
(***************************************************************************)
IsInteger(q) == q[1] % q[2] = 0

\* Python's int() of a non-negative fraction: truncation
IntOf(q) == q[1] \div q[2]

\* Python's round() of a non-negative fraction: nearest, ties to even
RoundOf(q) ==
    LET f == q[1] \div q[2]
        r == q[1] % q[2]
    IN  IF 2 * r < q[2] THEN f
        ELSE IF 2 * r > q[2] THEN f + 1
        ELSE IF f % 2 = 0 THEN f ELSE f + 1

\* batch_size * topk
TimesInt(n, q) == <<n * q[1], q[2]>>

(***************************************************************************)
(* Config (run_spd.py).  A nullable numeric field is None or a fraction    *)
(* that passed its field's validation (PositiveFloat, NonNegativeFloat,   *)
(* PositiveInt); validate_model only tests these fields against None.      *)
(***************************************************************************)
TopkValues == {<<n, TopkDen>> : n \in 1..MaxTopkNum}

Coeff == {None, <<1, 1>>}

SpdTypes == {"full_rank", "rank_penalty"}

LrSchedules == {"linear", "constant", "cosine", "exponential"}

\* "linear" and "cosine" are treated by validate_model exactly as "constant"
CfgLrSchedules == {"constant", "exponential"}

\* task_config: the discriminated union of the three task configs; of
\* PiecewiseConfig only handcoded_AB and n_layers are read by validate_model
TaskConfigs ==
    {[task_name |-> "tms", handcoded_AB |-> FALSE, n_layers |-> 1],
     [task_name |-> "residual_mlp", handcoded_AB |-> FALSE, n_layers |-> 1],
     [task_name |-> "piecewise", handcoded_AB |-> FALSE, n_layers |-> 1],
     [task_name |-> "piecewise", handcoded_AB |-> TRUE, n_layers |-> 1],
     [task_name |-> "piecewise", handcoded_AB |-> TRUE, n_layers |-> 2]}

ConfigArgs ==
    [spd_type : SpdTypes,
     topk : TopkValues \cup {None},
     batch_topk : BOOLEAN,
     exact_topk : BOOLEAN,
     batch_size : 1..MaxBatch,
     act_recon_coeff : Coeff,
     topk_recon_coeff : Coeff,
     topk_l2_coeff : Coeff,
     schatten_coeff : Coeff,
     schatten_pnorm : Coeff,
     lp_sparsity_coeff : Coeff,
     distil_from_target : BOOLEAN,
     pnorm : Coeff,
     m : Coeff,
     lr_schedule : CfgLrSchedules,
     lr_exponential_halflife : Coeff,
     unit_norm_matrices : BOOLEAN,
     task_config : TaskConfigs]

Ok == "ok"

MsgTopkInteger == "topk must be an integer when not using batch_topk"
MsgTopkRecon == "topk must be set if topk_recon_coeff is set"
MsgPnorm == "pnorm must be set if lp_sparsity_coeff is set"
MsgTopkL2None == "topk_l2_coeff is not None but topk is"
MsgTopkReconNone == "topk_recon_coeff is not None but topk is"
MsgHalflife == "lr_exponential_halflife must be set if lr_schedule is exponential"
MsgUnitNorm == "Can't unit norm matrices if using full rank"
MsgSchattenType == "schatten_coeff is not None but spd_type is not rank_penalty"
MsgSchattenPnorm == "schatten_pnorm must be set if schatten_coeff is set"
MsgDistil == "distil_from_target is currently only supported for piecewise"
MsgM == "Cannot set m for non-rank penalty SPD"
MsgHandcoded == "Handcoded AB not supported for >1 layer models due to a bug in the W_out matrices"
MsgResidMlp == "Only rank penalty supported for residual mlp"

\* mutant: the pooled count rounded to the nearest integer
BatchTopkCountRounded(batch_size, topk) == RoundOf(TimesInt(batch_size, topk))

\* the integer that the warning of validate_model announces for the number
\* of entries selected over the batch: int(self.batch_size * self.topk)
BatchTopkCount(batch_size, topk) == IntOf(TimesInt(batch_size, topk))

\* the warning is logged exactly when batch_size * topk is not an integer
RoundingWarning(c) ==
    /\ c.topk # None
    /\ c.batch_topk
    /\ ~IsInteger(TimesInt(c.batch_size, c.topk))

\* mutant: the integrality check applied with batch_topk instead of without
TopkIntegerCheckSwapped(c) ==
    IF c.topk # None /\ c.batch_topk /\ ~IsInteger(c.topk)
    THEN MsgTopkInteger ELSE Ok

TopkIntegerCheck(c) ==
    IF c.topk # None /\ ~c.batch_topk /\ ~IsInteger(c.topk)
    THEN MsgTopkInteger ELSE Ok

TopkReconCheck(c) ==
    IF c.topk_recon_coeff # None /\ c.topk = None THEN MsgTopkRecon ELSE Ok

\* mutant: pnorm required only when the coefficient is absent
LpSparsityCheckInverted(c) ==
    IF c.lp_sparsity_coeff = None /\ c.pnorm = None THEN MsgPnorm ELSE Ok

LpSparsityCheck(c) ==
    IF c.lp_sparsity_coeff # None /\ c.pnorm = None THEN MsgPnorm ELSE Ok

TopkNoneCheck(c) ==
    IF c.topk = None /\ c.topk_l2_coeff # None THEN MsgTopkL2None
    ELSE IF c.topk = None /\ c.topk_recon_coeff # None THEN MsgTopkReconNone
    ELSE Ok

HalflifeCheck(c) ==
    IF c.lr_schedule = "exponential" /\ c.lr_exponential_halflife = None
    THEN MsgHalflife ELSE Ok

\* mutant: the check guards rank_penalty instead of full_rank
UnitNormCheckWrongType(c) ==
    IF c.spd_type = "rank_penalty" /\ c.unit_norm_matrices THEN MsgUnitNorm ELSE Ok

UnitNormCheck(c) ==
    IF c.spd_type \in {"full_rank"} /\ c.unit_norm_matrices THEN MsgUnitNorm ELSE Ok

SchattenCheck(c) ==
    IF c.schatten_coeff # None /\ c.spd_type # "rank_penalty" THEN MsgSchattenType
    ELSE IF c.schatten_coeff # None /\ c.schatten_pnorm = None THEN MsgSchattenPnorm
    ELSE Ok

DistilCheck(c) ==
    IF c.distil_from_target /\ c.task_config.task_name # "piecewise"
    THEN MsgDistil ELSE Ok

MCheck(c) ==
    IF c.m # None /\ c.spd_type # "rank_penalty" THEN MsgM ELSE Ok

HandcodedCheck(c) ==
    IF /\ c.task_config.task_name = "piecewise"
       /\ c.task_config.handcoded_AB
       /\ c.task_config.n_layers # 1
    THEN MsgHandcoded ELSE Ok

ResidMlpCheck(c) ==
    IF c.task_config.task_name = "residual_mlp" /\ c.spd_type # "rank_penalty"
    THEN MsgResidMlp ELSE Ok

\* the checks in the order validate_model runs them
ValidationChecks(c) ==
    <<TopkIntegerCheck(c), TopkReconCheck(c), LpSparsityCheck(c), TopkNoneCheck(c),
      HalflifeCheck(c), UnitNormCheck(c), SchattenCheck(c), DistilCheck(c),
      MCheck(c), HandcodedCheck(c), ResidMlpCheck(c)>>

\* the first error raised, or Ok when validate_model returns self
validate_model(c) ==
    LET checks == ValidationChecks(c)
        failing == {i \in 1..Len(checks) : checks[i] # Ok}
    IN  IF failing = {} THEN Ok
        ELSE checks[CHOOSE i \in failing : \A j \in failing : i <= j]

(***************************************************************************)
(* The configuration-dependent assertions of one iteration of optimize,    *)
(* in the order the iteration reaches them.  The model object is built by  *)
(* the experiment script from config.spd_type.                             *)
(***************************************************************************)
AssertExactBatchTopk == "exact_topk only works if batch_topk is True"
AssertExactInstances == "exact_topk only works if n_instances = 1"
AssertLayerActsTopk == "assert layer_acts_topk is not None"
AssertMask == "assert mask is not None"
AssertPnorm == "pnorm must be set if lp_sparsity_coeff is set"
AssertUnitNormModel == "Can only norm matrices in SPDRankPenaltyModel instances"
AssertSchattenModel == "Schatten only supported for SPDRankPenaltyModel"

\* hasattr(model, "n_instances") and the attribute's value
ModelAttrs ==
    {[has_n_instances |-> FALSE, n_instances |-> 1],
     [has_n_instances |-> TRUE, n_instances |-> 1],
     [has_n_instances |-> TRUE, n_instances |-> 2]}

StepAssertions(c, model) ==
    <<IF c.unit_norm_matrices /\ c.spd_type # "rank_penalty"
        THEN AssertUnitNormModel ELSE Ok,
      IF c.lp_sparsity_coeff # None /\ c.pnorm = None THEN AssertPnorm ELSE Ok,
      IF c.topk # None /\ c.exact_topk /\ ~c.batch_topk
        THEN AssertExactBatchTopk ELSE Ok,
      IF /\ c.topk # None /\ c.exact_topk
         /\ ~(model.has_n_instances /\ model.n_instances = 1)
        THEN AssertExactInstances ELSE Ok,
      \* layer_acts_topk is assigned only inside "if config.topk is not None"
      IF /\ c.act_recon_coeff # None
         /\ c.task_config.task_name = "residual_mlp"
         /\ c.topk = None
        THEN AssertLayerActsTopk ELSE Ok,
      IF c.schatten_coeff # None /\ c.spd_type # "rank_penalty"
        THEN AssertSchattenModel ELSE Ok,
      \* mask = topk_mask if topk_mask is not None else lp_sparsity_loss_per_k
      IF c.schatten_coeff # None /\ c.topk = None /\ c.lp_sparsity_coeff = None
        THEN AssertMask ELSE Ok>>

StepAssertion(c, model) ==
    LET checks == StepAssertions(c, model)
        failing == {i \in 1..Len(checks) : checks[i] # Ok}
    IN  IF failing = {} THEN Ok
        ELSE checks[CHOOSE i \in failing : \A j \in failing : i <= j]

(***************************************************************************)
(* Actions of SpecConfig.                                                  *)
(***************************************************************************)
\* Config(**kwargs): the object exists only if validate_model returns
Construct ==
    /\ kwargs = None
    /\ \E c \in ConfigArgs :
        /\ kwargs' = c
        /\ config_error' = validate_model(c)
        /\ config' = IF validate_model(c) = Ok THEN c ELSE None
    /\ UNCHANGED <<step_assert, tk, fw, pm, fn, op>>

\* one iteration of optimize(model, config, ...) on an existing Config
OptimizeStepAsserts ==
    /\ config # None
    /\ step_assert = "not_run"
    /\ \E model \in ModelAttrs : step_assert' = StepAssertion(config, model)
    /\ UNCHANGED <<kwargs, config, config_error, tk, fw, pm, fn, op>>

InitConfig ==
    /\ kwargs = None
    /\ config = None
    /\ config_error = Ok
    /\ step_assert = "not_run"
    /\ fn = Idle
    /\ op = Idle
    /\ tk = Idle
    /\ fw = Idle
    /\ pm = Idle

NextConfig == Construct \/ OptimizeStepAsserts

SpecConfig == InitConfig /\ [][NextConfig]_vars

(***************************************************************************)
(* The top-k mask of an optimize step.  A tensor of shape                  *)
(* [batch, (n_instances,) k] is a record of its shape and its entries      *)
(* v[<<sample, instance, subnetwork>>]; without an instance dimension      *)
(* inst = 1 and has_inst = FALSE.                                          *)
(***************************************************************************)
Cells(b, ni, k) == (1..b) \X (1..ni) \X (1..k)

Tensor(b, ni, has_inst, k, v) ==
    [batch |-> b, inst |-> ni, has_inst |-> has_inst, k |-> k, v |-> v]

Shape(t) == <<t.batch, t.inst, t.has_inst, t.k>>

\* the (sample, instance) rows and the instances of a tensor
Rows(t) == (1..t.batch) \X (1..t.inst)

RowCells(t, row) == {c \in Cells(t.batch, t.inst, t.k) : c[1] = row[1] /\ c[2] = row[2]}

InstanceCells(t, i) == {c \in Cells(t.batch, t.inst, t.k) : c[2] = i}

\* number of True entries of a mask among the cells g
CountTrue(mask, g) == Cardinality({c \in g : mask.v[c]})

\* S holds n entries of group g and no entry left out scores higher than one
\* taken: what torch.topk + scatter_ mark, ties broken in an unspecified way
IsTopkSelection(scores, g, n, S) ==
    /\ S \subseteq g
    /\ Cardinality(S) = n
    /\ \A c \in S : \A d \in g \ S : scores.v[c] >= scores.v[d]

\* the selection groups: the whole batch of an instance, or one row
SelectionGroups(scores, batch_topk) ==
    IF batch_topk
    THEN {InstanceCells(scores, i) : i \in 1..scores.inst}
    ELSE {RowCells(scores, row) : row \in Rows(scores)}

\* the number of entries to select per group
SelectCount(scores, topk, batch_topk) ==
    IF batch_topk THEN BatchTopkCount(scores.batch, topk) ELSE IntOf(topk)

\* the masks calc_topk_mask(attribution_scores, topk, batch_topk) may return;
\* empty when topk exceeds the size of a group (torch.topk raises)
calc_topk_mask(scores, topk, batch_topk) ==
    LET n == SelectCount(scores, topk, batch_topk)
        cells == Cells(scores.batch, scores.inst, scores.k)
    IN  {Tensor(scores.batch, scores.inst, scores.has_inst, scores.k, m) :
            m \in {mm \in [cells -> BOOLEAN] :
                    \A g \in SelectionGroups(scores, batch_topk) :
                        IsTopkSelection(scores, g, n, {c \in g : mm[c]})}}

\* mutant: the last subnetwork's scores are not left out
TopkAttrsNotDropped(c, attributions) == attributions

\* attributions[..., :-1] if config.distil_from_target else attributions
TopkAttrs(c, attributions) ==
    IF c.distil_from_target
    THEN Tensor(attributions.batch, attributions.inst, attributions.has_inst,
                attributions.k - 1,
                [x \in Cells(attributions.batch, attributions.inst, attributions.k - 1)
                    |-> attributions.v[x]])
    ELSE attributions

\* torch.cat((topk_mask, last_subnet_mask), dim=-1), last_subnet_mask all True
AppendLastSubnet(mask) ==
    Tensor(mask.batch, mask.inst, mask.has_inst, mask.k + 1,
           [x \in Cells(mask.batch, mask.inst, mask.k + 1)
                |-> IF x[3] = mask.k + 1 THEN TRUE ELSE mask.v[x]])

\* exact_topk = ((batch != 0).sum() / batch.shape[0]).item()
ExactTopk(n_active, batch_size) == <<n_active, batch_size>>

\* mutant: the selector is always called with batch_topk=True
StepBatchTopkAlwaysPooled(c) == TRUE

\* the batch_topk argument the step passes to calc_topk_mask
StepBatchTopk(c) == IF c.exact_topk THEN TRUE ELSE c.batch_topk

\* the topk argument the step passes to calc_topk_mask
StepTopk(c, n_active, batch_size) ==
    IF c.exact_topk THEN ExactTopk(n_active, batch_size) ELSE c.topk

\* the assertions of the exact_topk branch
ExactTopkAssertion(c, has_inst, ni) ==
    IF c.exact_topk /\ ~c.batch_topk THEN AssertExactBatchTopk
    ELSE IF c.exact_topk /\ ~(has_inst /\ ni = 1) THEN AssertExactInstances
    ELSE Ok

\* the part of Config read by the top-k part of a step; every such Config
\* passed TopkIntegerCheck
TopkConfigs ==
    {c \in [topk : TopkValues, batch_topk : BOOLEAN, exact_topk : BOOLEAN,
            distil_from_target : BOOLEAN] : TopkIntegerCheck(c) = Ok}

TensorShapes ==
    {sh \in (1..MaxBatch) \X (1..MaxInstances) \X BOOLEAN \X (1..MaxK) :
        /\ sh[1] * sh[2] * sh[4] <= MaxCells
        /\ (~sh[3] => sh[2] = 1)}

AttributionTensors ==
    UNION {{Tensor(sh[1], sh[2], sh[3], sh[4], v) :
                v \in [Cells(sh[1], sh[2], sh[4]) -> 0..MaxScore]} : sh \in TensorShapes}

\* the state before the "if config.topk is not None" block of an iteration
InitTopk ==
    /\ kwargs = None
    /\ config = None
    /\ config_error = Ok
    /\ step_assert = "not_run"
    /\ fn = Idle
    /\ op = Idle
    /\ fw = Idle
    /\ pm = Idle
    /\ \E c \in TopkConfigs, a \in AttributionTensors :
        tk = [phase |-> "attributed", config |-> c, attributions |-> a,
              n_active |-> 0, selected |-> None, topk_mask |-> None, error |-> Ok]

\* an assertion of the exact_topk branch fails
TopkStepAssertFails ==
    /\ tk.phase = "attributed"
    /\ ExactTopkAssertion(tk.config, tk.attributions.has_inst, tk.attributions.inst) # Ok
    /\ tk' = [tk EXCEPT !.phase = "raised",
                !.error = ExactTopkAssertion(tk.config, tk.attributions.has_inst,
                                             tk.attributions.inst)]
    /\ UNCHANGED <<kwargs, config, config_error, step_assert, fw, pm, fn, op>>

\* torch.topk raises: more entries asked for than a group holds
TopkStepOutOfRange ==
    /\ tk.phase = "attributed"
    /\ ExactTopkAssertion(tk.config, tk.attributions.has_inst, tk.attributions.inst) = Ok
    /\ \E n_active \in 0..MaxCells :
        /\ tk.config.exact_topk \/ n_active = 0
        /\ calc_topk_mask(TopkAttrs(tk.config, tk.attributions),
                          StepTopk(tk.config, n_active, tk.attributions.batch),
                          StepBatchTopk(tk.config)) = {}
        /\ tk' = [tk EXCEPT !.phase = "raised", !.n_active = n_active,
                    !.error = "selected index k out of range"]
    /\ UNCHANGED <<kwargs, config, config_error, step_assert, fw, pm, fn, op>>

\* the mask is computed, and extended when distilling
TopkStepMask ==
    /\ tk.phase = "attributed"
    /\ ExactTopkAssertion(tk.config, tk.attributions.has_inst, tk.attributions.inst) = Ok
    /\ \E n_active \in 0..MaxCells :
        /\ tk.config.exact_topk \/ n_active = 0
        /\ \E mask \in calc_topk_mask(TopkAttrs(tk.config, tk.attributions),
                                      StepTopk(tk.config, n_active, tk.attributions.batch),
                                      StepBatchTopk(tk.config)) :
            tk' = [tk EXCEPT !.phase = "masked", !.n_active = n_active,
                     !.selected = mask,
                     !.topk_mask = IF tk.config.distil_from_target
                                   THEN AppendLastSubnet(mask) ELSE mask]
    /\ UNCHANGED <<kwargs, config, config_error, step_assert, fw, pm, fn, op>>

NextTopk == TopkStepAssertFails \/ TopkStepOutOfRange \/ TopkStepMask

SpecTopk == InitTopk /\ [][NextTopk]_vars

(***************************************************************************)
(* Forward passes (components.py, tms/models.py).  The parameters of a     *)
(* layer and its input x are one function p over slots                     *)
(* <<tensor name, index, index, index, index>> (unused indices are 1); an  *)
(* activation tensor is a function over <<sample, instance, ...>>, the     *)
(* instance being 1 for the layers of components.py.  A topk_mask is None  *)
(* or a Boolean function over <<sample, instance, subnetwork>>.            *)
(***************************************************************************)
RECURSIVE SumTo(_, _)
\* f[1] + ... + f[n]
SumTo(f, n) == IF n = 0 THEN 0 ELSE SumTo(f, n - 1) + f[n]

\* a Boolean mask entry as the factor the einsum multiplies by
BoolVal(b) == IF b THEN 1 ELSE 0

relu(v) == IF v > 0 THEN v ELSE 0

LayerKinds ==
    {"ParamComponents", "ParamComponentsFullRank", "TMSSPDModel",
     "TMSSPDFullRankModel", "TMSSPDRankPenaltyModel"}

IsTMS(sh) == sh.kind \in {"TMSSPDModel", "TMSSPDFullRankModel", "TMSSPDRankPenaltyModel"}

\* the slots of the input x: [batch, dim1] or [batch, n_instances, n_features]
XSlots(sh) == {<<"x", b, i, d, 1>> : b \in 1..sh.batch, i \in 1..sh.inst, d \in 1..sh.d_in}

\* the slots of the parameters of a layer of shape sh
ParamSlots(sh) ==
    CASE sh.kind = "ParamComponents" ->
            {<<"A", d, k, 1, 1>> : d \in 1..sh.d_in, k \in 1..sh.k}
            \cup {<<"B", k, d, 1, 1>> : k \in 1..sh.k, d \in 1..sh.d_out}
      [] sh.kind = "ParamComponentsFullRank" ->
            {<<"W", k, d[1], d[2], 1>> : k \in 1..sh.k, d \in (1..sh.d_in) \X (1..sh.d_out)}
            \cup (IF sh.bias THEN {<<"bias", k, d, 1, 1>> : k \in 1..sh.k, d \in 1..sh.d_out}
                  ELSE {})
      [] sh.kind = "TMSSPDModel" ->
            {<<"A", i, f, k, 1>> : i \in 1..sh.inst, f \in 1..sh.d_in, k \in 1..sh.k}
            \cup {<<"B", i, k, h, 1>> : i \in 1..sh.inst, k \in 1..sh.k, h \in 1..sh.d_out}
            \cup {<<"b_final", i, f, 1, 1>> : i \in 1..sh.inst, f \in 1..sh.d_in}
      [] sh.kind = "TMSSPDFullRankModel" ->
            {<<"W", i, k, d[1], d[2]>> :
                i \in 1..sh.inst, k \in 1..sh.k, d \in (1..sh.d_in) \X (1..sh.d_out)}
            \cup {<<"b_final", i, f, 1, 1>> : i \in 1..sh.inst, f \in 1..sh.d_in}
      [] sh.kind = "TMSSPDRankPenaltyModel" ->
            {<<"A", i, k, d[1], d[2]>> :
                i \in 1..sh.inst, k \in 1..sh.k, d \in (1..sh.d_in) \X (1..sh.m)}
            \cup {<<"B", i, k, d[1], d[2]>> :
                i \in 1..sh.inst, k \in 1..sh.k, d \in (1..sh.m) \X (1..sh.d_out)}
            \cup {<<"b_final", i, f, 1, 1>> : i \in 1..sh.inst, f \in 1..sh.d_in}

Slots(sh) == XSlots(sh) \cup ParamSlots(sh)

\* index sets of the activations
BID(sh, n) == (1..sh.batch) \X (1..sh.inst) \X (1..n)
BIK(sh) == BID(sh, sh.k)
BIKD(sh, n) == (1..sh.batch) \X (1..sh.inst) \X (1..sh.k) \X (1..n)

\* inner_acts * topk_mask, when a mask is given
Masked3(inner, mask) ==
    IF mask # None
    THEN [c \in DOMAIN inner |-> inner[c] * BoolVal(mask[<<c[1], c[2], c[3]>>])]
    ELSE inner

\* ParamComponents.forward
ParamComponents_forward(p, sh, mask) ==
    LET inner_x == [c \in BIK(sh) |->
                      SumTo([d \in 1..sh.d_in |->
                               p[<<"x", c[1], 1, d, 1>>] * p[<<"A", d, c[3], 1, 1>>]],
                            sh.d_in)]
        inner_acts == Masked3(inner_x, mask)
        out == [c \in BID(sh, sh.d_out) |->
                  SumTo([k \in 1..sh.k |->
                           inner_acts[<<c[1], c[2], k>>] * p[<<"B", k, c[3], 1, 1>>]],
                        sh.k)]
    IN  [out |-> out, layer_acts |-> <<out>>, inner_acts |-> <<inner_acts>>]

\* x @ subnetwork_params, per subnetwork: [batch, k, dim2]
FullRankProduct(p, sh) ==
    [c \in BIKD(sh, sh.d_out) |->
        SumTo([d \in 1..sh.d_in |->
                 p[<<"x", c[1], 1, d, 1>>] * p[<<"W", c[3], d, c[4], 1>>]],
              sh.d_in)]

\* mutant: the bias is added after the mask is applied
FullRankInnerActsBiasAfterMask(p, sh, mask) ==
    LET masked == Masked3(FullRankProduct(p, sh), mask)
    IN  IF sh.bias
        THEN [c \in DOMAIN masked |-> masked[c] + p[<<"bias", c[3], c[4], 1, 1>>]]
        ELSE masked

\* mutant: the masked branch drops the bias
FullRankInnerActsMaskedNoBias(p, sh, mask) ==
    LET prod == FullRankProduct(p, sh)
    IN  IF mask # None THEN Masked3(prod, mask)
        ELSE IF sh.bias
        THEN [c \in DOMAIN prod |-> prod[c] + p[<<"bias", c[3], c[4], 1, 1>>]]
        ELSE prod

\* the inner_acts of ParamComponentsFullRank.forward: the bias of each
\* subnetwork is added first, then the mask is applied
FullRankInnerActs(p, sh, mask) ==
    LET prod == FullRankProduct(p, sh)
        with_bias == IF sh.bias
                     THEN [c \in DOMAIN prod |-> prod[c] + p[<<"bias", c[3], c[4], 1, 1>>]]
                     ELSE prod
    IN  Masked3(with_bias, mask)

\* ParamComponentsFullRank.forward
ParamComponentsFullRank_forward(p, sh, mask) ==
    LET inner_acts == FullRankInnerActs(p, sh, mask)
        out == [c \in BID(sh, sh.d_out) |->
                  SumTo([k \in 1..sh.k |-> inner_acts[<<c[1], c[2], k, c[3]>>]], sh.k)]
    IN  [out |-> out, layer_acts |-> <<out>>, inner_acts |-> <<inner_acts>>]

\* TMSSPDModel.forward
TMSSPDModel_forward(p, sh, mask) ==
    LET inner_act_0 ==
            Masked3([c \in BIK(sh) |->
                       SumTo([f \in 1..sh.d_in |->
                                p[<<"x", c[1], c[2], f, 1>>] * p[<<"A", c[2], f, c[3], 1>>]],
                             sh.d_in)], mask)
        layer_act_0 ==
            [c \in BID(sh, sh.d_out) |->
                SumTo([k \in 1..sh.k |->
                         inner_act_0[<<c[1], c[2], k>>] * p[<<"B", c[2], k, c[3], 1>>]],
                      sh.k)]
        inner_act_1 ==
            Masked3([c \in BIK(sh) |->
                       SumTo([h \in 1..sh.d_out |->
                                layer_act_0[<<c[1], c[2], h>>] * p[<<"B", c[2], c[3], h, 1>>]],
                             sh.d_out)], mask)
        layer_act_1 ==
            [c \in BID(sh, sh.d_in) |->
                SumTo([k \in 1..sh.k |->
                         inner_act_1[<<c[1], c[2], k>>] * p[<<"A", c[2], c[3], k, 1>>]],
                      sh.k)
                + p[<<"b_final", c[2], c[3], 1, 1>>]]
    IN  [out |-> [c \in DOMAIN layer_act_1 |-> relu(layer_act_1[c])],
         layer_acts |-> <<layer_act_0, layer_act_1>>,
         inner_acts |-> <<inner_act_0, inner_act_1>>]

\* TMSSPDFullRankModel.forward
TMSSPDFullRankModel_forward(p, sh, mask) ==
    LET inner_act_0 ==
            Masked3([c \in BIKD(sh, sh.d_out) |->
                       SumTo([f \in 1..sh.d_in |->
                                p[<<"x", c[1], c[2], f, 1>>] * p[<<"W", c[2], c[3], f, c[4]>>]],
                             sh.d_in)], mask)
        layer_act_0 ==
            [c \in BID(sh, sh.d_out) |->
                SumTo([k \in 1..sh.k |-> inner_act_0[<<c[1], c[2], k, c[3]>>]], sh.k)]
        inner_act_1 ==
            Masked3([c \in BIKD(sh, sh.d_in) |->
                       SumTo([h \in 1..sh.d_out |->
                                layer_act_0[<<c[1], c[2], h>>]
                                    * p[<<"W", c[2], c[3], c[4], h>>]],
                             sh.d_out)], mask)
        layer_act_1 ==
            [c \in BID(sh, sh.d_in) |->
                SumTo([k \in 1..sh.k |-> inner_act_1[<<c[1], c[2], k, c[3]>>]], sh.k)
                + p[<<"b_final", c[2], c[3], 1, 1>>]]
    IN  [out |-> [c \in DOMAIN layer_act_1 |-> relu(layer_act_1[c])],
         layer_acts |-> <<layer_act_0, layer_act_1>>,
         inner_acts |-> <<inner_act_0, inner_act_1>>]

\* TMSSPDRankPenaltyModel.forward
TMSSPDRankPenaltyModel_forward(p, sh, mask) ==
    LET pre_inner_act_0 ==
            Masked3([c \in BIKD(sh, sh.m) |->
                       SumTo([f \in 1..sh.d_in |->
                                p[<<"x", c[1], c[2], f, 1>>] * p[<<"A", c[2], c[3], f, c[4]>>]],
                             sh.d_in)], mask)
        inner_act_0 ==
            [c \in BIKD(sh, sh.d_out) |->
                SumTo([mm \in 1..sh.m |->
                         pre_inner_act_0[<<c[1], c[2], c[3], mm>>]
                             * p[<<"B", c[2], c[3], mm, c[4]>>]],
                      sh.m)]
        layer_act_0 ==
            [c \in BID(sh, sh.d_out) |->
                SumTo([k \in 1..sh.k |-> inner_act_0[<<c[1], c[2], k, c[3]>>]], sh.k)]
        pre_inner_act_1 ==
            Masked3([c \in BIKD(sh, sh.m) |->
                       SumTo([h \in 1..sh.d_out |->
                                layer_act_0[<<c[1], c[2], h>>]
                                    * p[<<"B", c[2], c[3], c[4], h>>]],
                             sh.d_out)], mask)
        inner_act_1 ==
            [c \in BIKD(sh, sh.d_in) |->
                SumTo([mm \in 1..sh.m |->
                         pre_inner_act_1[<<c[1], c[2], c[3], mm>>]
                             * p[<<"A", c[2], c[3], c[4], mm>>]],
                      sh.m)]
        layer_act_1 ==
            [c \in BID(sh, sh.d_in) |->
                SumTo([k \in 1..sh.k |-> inner_act_1[<<c[1], c[2], k, c[3]>>]], sh.k)
                + p[<<"b_final", c[2], c[3], 1, 1>>]]
    IN  [out |-> [c \in DOMAIN layer_act_1 |-> relu(layer_act_1[c])],
         layer_acts |-> <<layer_act_0, layer_act_1>>,
         inner_acts |-> <<inner_act_0, inner_act_1>>]

\* model(x, topk_mask=mask) for the layer of shape sh
Forward(p, sh, mask) ==
    CASE sh.kind = "ParamComponents" -> ParamComponents_forward(p, sh, mask)
      [] sh.kind = "ParamComponentsFullRank" -> ParamComponentsFullRank_forward(p, sh, mask)
      [] sh.kind = "TMSSPDModel" -> TMSSPDModel_forward(p, sh, mask)
      [] sh.kind = "TMSSPDFullRankModel" -> TMSSPDFullRankModel_forward(p, sh, mask)
      [] sh.kind = "TMSSPDRankPenaltyModel" -> TMSSPDRankPenaltyModel_forward(p, sh, mask)

\* the shapes of the layers and inputs of the model: TMSSPDModel requires
\* n_features = k, the layers of components.py have no instance dimension
LayerShapes ==
    {sh \in [kind : LayerKinds, batch : 1..MaxBatch, inst : 1..MaxInstances,
             k : 1..MaxK, d_in : 1..MaxDim, d_out : 1..MaxDim, m : 1..MaxDim,
             bias : BOOLEAN] :
        /\ IsTMS(sh) \/ sh.inst = 1
        /\ sh.kind = "TMSSPDModel" => sh.d_in = sh.k
        /\ sh.kind = "TMSSPDRankPenaltyModel" \/ sh.m = 1
        /\ sh.kind = "ParamComponentsFullRank" \/ ~sh.bias
        /\ Cardinality(Slots(sh)) <= MaxSlots}

AllTrue(sh) == [c \in BIK(sh) |-> TRUE]

AllFalse(sh) == [c \in BIK(sh) |-> FALSE]

\* the masks the masked pass is called with
Masks(sh) == {AllTrue(sh), AllFalse(sh)}

\* the values of a parameter or input entry
EntryValues == {-1, 0, 1}

NonzeroSlots(p) == {x \in DOMAIN p : p[x] # 0}

\* a layer of some shape with all parameters and inputs zero
InitForward ==
    /\ kwargs = None
    /\ config = None
    /\ config_error = Ok
    /\ step_assert = "not_run"
    /\ fn = Idle
    /\ op = Idle
    /\ tk = Idle
    /\ pm = Idle
    /\ \E sh \in LayerShapes :
        fw = [phase |-> "params", sh |-> sh, p |-> [x \in Slots(sh) |-> 0],
              mask |-> None, result |-> None]

\* a parameter or an input entry takes a value (training, a new batch)
SetEntry ==
    /\ fw.phase = "params"
    /\ Cardinality(NonzeroSlots(fw.p)) < MaxNonzero
    /\ \E x \in DOMAIN fw.p, v \in EntryValues \ {0} :
        /\ fw.p[x] = 0
        /\ fw' = [fw EXCEPT !.p[x] = v]
    /\ UNCHANGED <<kwargs, config, config_error, step_assert, tk, pm, fn, op>>

\* model(x): the forward pass with topk_mask=None
ForwardUnmasked ==
    /\ fw.phase = "params"
    /\ fw' = [fw EXCEPT !.phase = "called", !.mask = None,
                !.result = Forward(fw.p, fw.sh, None)]
    /\ UNCHANGED <<kwargs, config, config_error, step_assert, tk, pm, fn, op>>

\* model(x, topk_mask=mask)
ForwardMasked ==
    /\ fw.phase = "params"
    /\ \E mask \in Masks(fw.sh) :
        fw' = [fw EXCEPT !.phase = "called", !.mask = mask,
                 !.result = Forward(fw.p, fw.sh, mask)]
    /\ UNCHANGED <<kwargs, config, config_error, step_assert, tk, pm, fn, op>>

NextForward == SetEntry \/ ForwardUnmasked \/ ForwardMasked

SpecForward == InitForward /\ [][NextForward]_vars

(***************************************************************************)
(* The parameter-match loss: calc_param_match_loss and the n_params that   *)
(* optimize hands to it.  A model has up to MaxMatrices decomposable       *)
(* parameters; parameter j of the target is pretrained_weights[j] and      *)
(* subnetwork_params_summed[j] is its counterpart, already summed over the *)
(* subnetworks.  A parameter is a matrix [d_in, d_out] or, with d_in = 0,  *)
(* a vector [d_out], with a leading n_instances axis when the model has    *)
(* one.  Losses are fractions <<numerator, denominator>>.                  *)
(***************************************************************************)
MaxMatrices == 2

\* the parameters of a model have at most MaxElements elements together
MaxElements == 4

ParamShapes == [d_in : 0..MaxDim, d_out : 1..MaxDim]

\* the models: n_instances is read only when the attribute exists
ParamModels ==
    {m \in [has_n_instances : BOOLEAN, n_instances : 1..MaxInstances] :
        m.has_n_instances \/ m.n_instances = 1}

RowsOf(shape) == IF shape.d_in = 0 THEN 1 ELSE shape.d_in

\* p.numel() of a parameter of the given shape
numel(shape, model) == model.n_instances * RowsOf(shape) * shape.d_out

\* the entries of the two weight dictionaries
WeightSlots(shapes, model) ==
    {<<d, j, e[1], e[2], e[3]>> :
        d \in {"pretrained_weights", "subnetwork_params_summed"},
        j \in DOMAIN shapes,
        e \in (1..model.n_instances) \X (1..MaxDim) \X (1..MaxDim)}
    \ {x \in {<<d, j, e[1], e[2], e[3]>> :
                d \in {"pretrained_weights", "subnetwork_params_summed"},
                j \in DOMAIN shapes,
                e \in (1..model.n_instances) \X (1..MaxDim) \X (1..MaxDim)} :
         x[4] > RowsOf(shapes[x[2]]) \/ x[5] > shapes[x[2]].d_out}

\* mutant: the parameter count is not divided by n_instances
n_paramsAllInstances(shapes, model) ==
    SumTo([j \in DOMAIN shapes |-> numel(shapes[j], model)], Len(shapes))

\* n_params of optimize: the element count of the summed subnetwork
\* parameters, per instance when the model has an instance dimension
n_params(shapes, model) ==
    LET total == SumTo([j \in DOMAIN shapes |-> numel(shapes[j], model)], Len(shapes))
    IN  IF model.has_n_instances THEN total \div model.n_instances ELSE total

\* ((subnetwork_param - pretrained_weight) ** 2).sum(dim=mean_dims): one
\* value per instance
SquaredDiffSum(w, shapes, model, item) ==
    [i \in 1..model.n_instances |->
        SumTo([r \in 1..RowsOf(shapes[item[1]]) |->
                 SumTo([c \in 1..shapes[item[1]].d_out |->
                          LET d == w[<<"subnetwork_params_summed", item[2], i, r, c>>]
                                   - w[<<"pretrained_weights", item[1], i, r, c>>]
                          IN  d * d],
                       shapes[item[1]].d_out)],
              RowsOf(shapes[item[1]]))]

\* mutant: the loop keeps the last parameter's sum only
AccumulateOverwrite(param_match_loss, squared_sum) == squared_sum

\* param_match_loss = param_match_loss + squared_sum
Accumulate(param_match_loss, squared_sum) ==
    [i \in DOMAIN squared_sum |-> param_match_loss[i] + squared_sum[i]]

\* the loop over param_map.items(), in the dictionary's iteration order
RECURSIVE ParamMatchLoop(_, _, _, _, _)
ParamMatchLoop(w, shapes, model, param_map, param_match_loss) ==
    IF param_map = <<>> THEN param_match_loss
    ELSE ParamMatchLoop(w, shapes, model, Tail(param_map),
                        Accumulate(param_match_loss,
                                   SquaredDiffSum(w, shapes, model, Head(param_map))))

\* calc_param_match_loss: of shape [n_instances] when has_instance_dim,
\* otherwise a scalar
calc_param_match_loss(w, shapes, model, param_map, n) ==
    LET summed == ParamMatchLoop(w, shapes, model, param_map,
                                 [i \in 1..model.n_instances |-> 0])
    IN  IF model.has_n_instances
        THEN [i \in 1..model.n_instances |-> <<summed[i], n>>]
        ELSE <<summed[1], n>>

\* the values of an entry of a weight dictionary
WeightValues(d) == IF d = "pretrained_weights" THEN {0, 1} ELSE {-1, 0}

\* the iteration orders of a param_map over the parameters 1..n: entry
\* <<j, j>> maps target parameter j to summed subnetwork parameter j
ParamMaps(n) == {[i \in 1..n |-> <<o[i], o[i]>>] : o \in Permutations(1..n)}

ParamMatchConfigs ==
    {c \in [shapes : UNION {[1..n -> ParamShapes] : n \in 1..MaxMatrices},
            model : ParamModels] :
        n_paramsAllInstances(c.shapes, c.model) <= MaxElements}

\* a target model and an SPD model with all weights zero
InitParamMatch ==
    /\ kwargs = None
    /\ config = None
    /\ config_error = Ok
    /\ step_assert = "not_run"
    /\ fn = Idle
    /\ op = Idle
    /\ tk = Idle
    /\ fw = Idle
    /\ \E c \in ParamMatchConfigs :
        pm = [phase |-> "weights", shapes |-> c.shapes, model |-> c.model,
              w |-> [x \in WeightSlots(c.shapes, c.model) |-> 0],
              param_map |-> None, loss |-> None]

\* an entry of a pretrained weight or of a summed subnetwork parameter
\* takes a value
SetWeight ==
    /\ pm.phase = "weights"
    /\ Cardinality(NonzeroSlots(pm.w)) < MaxNonzero
    /\ \E x \in DOMAIN pm.w :
       \E v \in WeightValues(x[1]) \ {0} :
        /\ pm.w[x] = 0
        /\ pm' = [pm EXCEPT !.w[x] = v]
    /\ UNCHANGED <<kwargs, config, config_error, step_assert, tk, fw, fn, op>>

\* optimize computes n_params and calls calc_param_match_loss with the
\* param_map it was given
CalcParamMatchLoss ==
    /\ pm.phase = "weights"
    /\ \E param_map \in ParamMaps(Len(pm.shapes)) :
        pm' = [pm EXCEPT !.phase = "called", !.param_map = param_map,
                 !.loss = calc_param_match_loss(pm.w, pm.shapes, pm.model, param_map,
                                                n_params(pm.shapes, pm.model))]
    /\ UNCHANGED <<kwargs, config, config_error, step_assert, tk, fw, fn, op>>

NextParamMatch == SetWeight \/ CalcParamMatchLoss

SpecParamMatch == InitParamMatch /\ [][NextParamMatch]_vars

(***************************************************************************)
(* The top-k L2 loss: calc_topk_l2_full_rank.  subnet_param_vals[j] has    *)
(* shape [(n_instances,) k, (d_in,) d_out]; its entries are                *)
(* w[<<j, instance, subnetwork, row, column>>].  topk_mask has shape       *)
(* [batch, (n_instances,) k] with entries mask[<<sample, instance, k>>].   *)
(***************************************************************************)
\* the subnetwork parameters of a model have at most MaxL2Elements entries
MaxL2Elements == 4

SubnetSlots(shapes, model, k) ==
    {x \in {<<j, e[1], e[2], e[3], e[4]>> :
              j \in DOMAIN shapes,
              e \in (1..model.n_instances) \X (1..k) \X (1..MaxDim) \X (1..MaxDim)} :
        x[4] <= RowsOf(shapes[x[1]]) /\ x[5] <= shapes[x[1]].d_out}

MaskCells(batch, model, k) == (1..batch) \X (1..model.n_instances) \X (1..k)

\* mutant: every subnetwork is summed, whatever the mask
topk_paramsUnmasked(w, mask, k, j, b, i, r, c) ==
    SumTo([kk \in 1..k |-> w[<<j, i, kk, r, c>>]], k)

\* einops.einsum(subnetwork_param_val, topk_mask, ein_str) at one entry
topk_params(w, mask, k, j, b, i, r, c) ==
    SumTo([kk \in 1..k |-> w[<<j, i, kk, r, c>>] * BoolVal(mask[<<b, i, kk>>])], k)

\* ((topk_params) ** 2).sum(dim=mean_dims): one value per instance
TopkL2SquaredSum(w, shapes, model, k, batch, mask, j) ==
    [i \in 1..model.n_instances |->
        SumTo([b \in 1..batch |->
                 SumTo([r \in 1..RowsOf(shapes[j]) |->
                          SumTo([c \in 1..shapes[j].d_out |->
                                   topk_params(w, mask, k, j, b, i, r, c)
                                   * topk_params(w, mask, k, j, b, i, r, c)],
                                shapes[j].d_out)],
                       RowsOf(shapes[j]))],
              batch)]

\* the loop over subnet_param_vals
RECURSIVE TopkL2Loop(_, _, _, _, _, _, _, _)
TopkL2Loop(w, shapes, model, k, batch, mask, j, topk_l2_penalty) ==
    IF j > Len(shapes) THEN topk_l2_penalty
    ELSE TopkL2Loop(w, shapes, model, k, batch, mask, j + 1,
                    Accumulate(topk_l2_penalty,
                               TopkL2SquaredSum(w, shapes, model, k, batch, mask, j)))

\* calc_topk_l2_full_rank: topk_l2_penalty / n_params / batch_size, of shape
\* [n_instances] when n_instances is not None
calc_topk_l2_full_rank(w, shapes, model, k, batch, mask, n) ==
    LET penalty == TopkL2Loop(w, shapes, model, k, batch, mask, 1,
                              [i \in 1..model.n_instances |-> 0])
    IN  IF model.has_n_instances
        THEN [i \in 1..model.n_instances |-> <<penalty[i], n * batch>>]
        ELSE <<penalty[1], n * batch>>

\* the models and parameter shapes within the bounds
TopkL2Configs ==
    {c \in [shapes : UNION {[1..n -> ParamShapes] : n \in 1..MaxMatrices},
            model : ParamModels, k : 1..MaxK, batch : 1..MaxBatch] :
        /\ Cardinality(SubnetSlots(c.shapes, c.model, c.k)) <= MaxL2Elements
        /\ Cardinality(MaskCells(c.batch, c.model, c.k)) <= MaxCells}

\* the models of TestCalcTopkL2: one [2, 2] matrix with k = 3, and one
\* [1, 1] matrix with k = 2 in each of two instances; every entry is one
TopkL2Fixtures ==
    {[shapes |-> <<[d_in |-> 2, d_out |-> 2]>>,
      model |-> [has_n_instances |-> FALSE, n_instances |-> 1], k |-> 3, batch |-> 1],
     [shapes |-> <<[d_in |-> 1, d_out |-> 1]>>,
      model |-> [has_n_instances |-> TRUE, n_instances |-> 2], k |-> 2, batch |-> 2]}

InitTopkL2 ==
    /\ kwargs = None
    /\ config = None
    /\ config_error = Ok
    /\ step_assert = "not_run"
    /\ tk = Idle
    /\ fw = Idle
    /\ pm = Idle
    /\ op = Idle
    /\ \/ \E c \in TopkL2Configs :
            \E w \in [SubnetSlots(c.shapes, c.model, c.k) -> EntryValues \ {0}] :
                fn = [phase |-> "inputs", name |-> "calc_topk_l2_full_rank", c |-> c,
                      w |-> w, mask |-> None, result |-> None]
       \/ \E c \in TopkL2Fixtures :
            fn = [phase |-> "inputs", name |-> "calc_topk_l2_full_rank", c |-> c,
                  w |-> [x \in SubnetSlots(c.shapes, c.model, c.k) |-> 1],
                  mask |-> None, result |-> None]

\* optimize calls calc_topk_l2_full_rank with the step's topk_mask
CalcTopkL2 ==
    /\ fn.phase = "inputs"
    /\ fn.name = "calc_topk_l2_full_rank"
    /\ \E mask \in [MaskCells(fn.c.batch, fn.c.model, fn.c.k) -> BOOLEAN] :
        fn' = [fn EXCEPT !.phase = "called", !.mask = mask,
                 !.result = calc_topk_l2_full_rank(fn.w, fn.c.shapes, fn.c.model, fn.c.k,
                                                   fn.c.batch, mask,
                                                   n_params(fn.c.shapes, fn.c.model))]
    /\ UNCHANGED <<kwargs, config, config_error, step_assert, tk, fw, pm, op>>

NextTopkL2 == CalcTopkL2

SpecTopkL2 == InitTopkL2 /\ [][NextTopkL2]_vars

(***************************************************************************)
(* The reconstruction loss: calc_recon_mse(output, labels,                 *)
(* has_instance_dim).  output and labels have shape                        *)
(* [batch, (n_instances,) n_features] with entries                         *)
(* t[<<sample, instance, feature>>].                                       *)
(***************************************************************************)
OutCells(batch, model, d) == (1..batch) \X (1..model.n_instances) \X (1..d)

\* the squared errors of instance i, summed over the batch and the features
SquaredErrorSum(output, labels, batch, d, i) ==
    SumTo([b \in 1..batch |->
             SumTo([f \in 1..d |->
                      (output[<<b, i, f>>] - labels[<<b, i, f>>])
                      * (output[<<b, i, f>>] - labels[<<b, i, f>>])],
                   d)],
          batch)

\* calc_recon_mse: with an instance dimension the mean over the batch and
\* feature axes for each instance, otherwise the mean over all entries
calc_recon_mse(output, labels, batch, n_instances, d, has_instance_dim) ==
    IF has_instance_dim
    THEN [i \in 1..n_instances |->
            <<SquaredErrorSum(output, labels, batch, d, i), batch * d>>]
    ELSE <<SumTo([i \in 1..n_instances |-> SquaredErrorSum(output, labels, batch, d, i)],
                 n_instances),
           batch * n_instances * d>>

\* mutant: the loss is computed without the instance dimension
out_recon_lossNoInstanceDim(output, labels, batch, model, d) ==
    calc_recon_mse(output, labels, batch, model.n_instances, d, FALSE)

\* out_recon_loss = calc_recon_mse(out, target_out, has_instance_dim)
out_recon_loss(output, labels, batch, model, d) ==
    calc_recon_mse(output, labels, batch, model.n_instances, d, model.has_n_instances)

ReconConfigs ==
    {c \in [batch : 1..MaxBatch, model : ParamModels, d : 1..MaxDim] :
        Cardinality(OutCells(c.batch, c.model, c.d)) <= MaxCells}

\* the entries of the SPD model's output and of the target's output
OutValues == {-1, 0, 1}
TargetValues == {0, 1}

InitReconMse ==
    /\ kwargs = None
    /\ config = None
    /\ config_error = Ok
    /\ step_assert = "not_run"
    /\ tk = Idle
    /\ fw = Idle
    /\ pm = Idle
    /\ op = Idle
    /\ \E c \in ReconConfigs :
        \E output \in [OutCells(c.batch, c.model, c.d) -> OutValues],
           labels \in [OutCells(c.batch, c.model, c.d) -> TargetValues] :
            fn = [phase |-> "inputs", name |-> "calc_recon_mse", c |-> c,
                  output |-> output, labels |-> labels, result |-> None]

\* optimize computes the reconstruction loss of the step's output
CalcReconMse ==
    /\ fn.phase = "inputs"
    /\ fn.name = "calc_recon_mse"
    /\ fn' = [fn EXCEPT !.phase = "called",
                !.result = out_recon_loss(fn.output, fn.labels, fn.c.batch, fn.c.model,
                                          fn.c.d)]
    /\ UNCHANGED <<kwargs, config, config_error, step_assert, tk, fw, pm, op>>

NextReconMse == CalcReconMse

SpecReconMse == InitReconMse /\ [][NextReconMse]_vars

(***************************************************************************)
(* The learning rate: get_lr_schedule_fn and get_lr_with_warmup.  The      *)
(* schedule's value is kept exact: a fraction, cos(pi/2 * arg) or          *)
(* 0.5 ** arg with a fraction arg; a division by zero is the value         *)
(* ZeroDivisionError.                                                      *)
(***************************************************************************)
\* config.steps in 1..MaxSteps
MaxSteps == 3
\* lr_warmup_pct takes the values n / PctDen, n in 0..PctDen
PctDen == 2
\* lr_exponential_halflife in 1..MaxHalflife
MaxHalflife == 2

ZeroDivisionError == [raised |-> "ZeroDivisionError"]

Rational(n, d) == [kind |-> "rational", v |-> <<n, d>>]

\* Python's step / steps on ints
TrueDiv(n, d) == IF d = 0 THEN ZeroDivisionError ELSE Rational(n, d)

\* 1 - x for a quotient x
OneMinus(x) ==
    IF x = ZeroDivisionError THEN ZeroDivisionError
    ELSE Rational(x.v[2] - x.v[1], x.v[2])

\* the lambda returned by get_lr_schedule_fn, applied to (step, steps)
lr_schedule_fn(lr_schedule, halflife, step, steps) ==
    CASE lr_schedule = "linear" -> OneMinus(TrueDiv(step, steps))
      [] lr_schedule = "constant" -> Rational(1, 1)
      [] lr_schedule = "cosine" ->
            IF steps = 1 THEN Rational(1, 1)
            ELSE [kind |-> "cos", arg |-> <<step, steps - 1>>]
      \* gamma ** step with gamma = 0.5 ** (1 / halflife)
      [] lr_schedule = "exponential" -> [kind |-> "half_pow", arg |-> <<step * halflife[2], halflife[1]>>]

\* the total handed to the schedule after warmup: steps - warmup_steps
ScheduleSteps(steps, n_warmup) == steps - n_warmup

\* warmup_steps = int(steps * lr_warmup_pct)
warmup_steps(steps, lr_warmup_pct) == IntOf(TimesInt(steps, lr_warmup_pct))

\* get_lr_with_warmup: the factor that multiplies lr
get_lr_with_warmup(step, steps, lr_schedule, halflife, lr_warmup_pct) ==
    LET n_warmup == warmup_steps(steps, lr_warmup_pct)
    IN  IF step < n_warmup THEN TrueDiv(step, n_warmup)
        ELSE lr_schedule_fn(lr_schedule, halflife, step - n_warmup,
                            ScheduleSteps(steps, n_warmup))

WarmupPcts == {<<n, PctDen>> : n \in 0..PctDen}

\* the fields of Config the learning rate reads; validate_model requires
\* lr_exponential_halflife for the exponential schedule
LrConfigs ==
    {c \in [steps : 1..MaxSteps, lr_schedule : LrSchedules, lr_warmup_pct : WarmupPcts,
            lr_exponential_halflife : {None} \cup {<<h, 1>> : h \in 1..MaxHalflife}] :
        c.lr_schedule = "exponential" <=> c.lr_exponential_halflife # None}

InitLr ==
    /\ kwargs = None
    /\ config = None
    /\ config_error = Ok
    /\ step_assert = "not_run"
    /\ tk = Idle
    /\ fw = Idle
    /\ pm = Idle
    /\ op = Idle
    /\ \E c \in LrConfigs :
        fn = [phase |-> "inputs", name |-> "get_lr_with_warmup", c |-> c,
              step |-> None, result |-> None]

\* optimize computes step_lr in the loop iteration step, 0 <= step <= steps
CalcStepLr ==
    /\ fn.phase = "inputs"
    /\ fn.name = "get_lr_with_warmup"
    /\ \E step \in 0..fn.c.steps :
        fn' = [fn EXCEPT !.phase = "called", !.step = <<step>>,
                 !.result = get_lr_with_warmup(step, fn.c.steps, fn.c.lr_schedule,
                                               fn.c.lr_exponential_halflife,
                                               fn.c.lr_warmup_pct)]
    /\ UNCHANGED <<kwargs, config, config_error, step_assert, tk, fw, pm, op>>

NextLr == CalcStepLr

SpecLr == InitLr /\ [][NextLr]_vars

(***************************************************************************)
(* optimize: the training loop.  A batch is named by a number: its index   *)
(* in the pass for a loader over a stored dataset, the index of the draw   *)
(* from the process-wide generator for a loader whose dataset generates    *)
(* each batch at random.  The SPD parameters after u updates are named by  *)
(* the batches of the first u iterations.                                  *)
(***************************************************************************)
\* image_freq, save_freq and print_freq in 1..MaxFreq
MaxFreq == 2
\* a pass of the data loader yields 0..MaxBatches batches
MaxBatches == 2

\* the tensors of pretrained_model.all_decomposable_params()
TargetParams == {"pretrained_model.W"}

\* the tensors of model.parameters()
SpdParams == {"model.A", "model.B"}

\* the tensors model.set_matrices_to_unit_norm() rewrites
UnitNormParams == {"model.A"}

\* mutant: the optimizer is built over both models' parameters
OptimizerParamsBothModels == SpdParams \cup TargetParams

\* opt = torch.optim.AdamW(model.parameters(), ...)
OptimizerParams == SpdParams

LoaderKinds == {"dataset", "generated"}

\* the hooks the experiment scripts pass as plot_results_fn: none, tms's
\* make_plots, and resid_mlp's hook bound to the training dataloader with
\* topk set and k > 1
PlotHooks == {"None", "make_plots", "resid_mlp_plot_results_fn"}

OptimizeConfigs ==
    {c \in [steps : 1..MaxSteps, print_freq : 1..MaxFreq,
            wandb_project : {"None", "project"}, unit_norm_matrices : BOOLEAN,
            image_freq : {None} \cup {<<f, 1>> : f \in 1..MaxFreq},
            save_freq : {None} \cup {<<f, 1>> : f \in 1..MaxFreq},
            lr_schedule : LrSchedules, lr_warmup_pct : WarmupPcts,
            lr_exponential_halflife : {None, <<1, 1>>}] :
        c.lr_schedule = "exponential" <=> c.lr_exponential_halflife # None}

OptimizeArgs ==
    [config : OptimizeConfigs, out_dir : {"None", "out"}, plot_results_fn : PlotHooks,
     dataloader : [kind : LoaderKinds, n_batches : 0..MaxBatches]]

\* next(data_iter) on the loader: the batch, or StopIteration at the end of
\* the pass
NextBatch(dataloader, data_iter, rng) ==
    IF data_iter >= dataloader.n_batches THEN [raised |-> "StopIteration"]
    ELSE IF dataloader.kind = "generated"
         THEN [batch |-> rng, data_iter |-> data_iter + 1, rng |-> rng + 1]
         ELSE [batch |-> data_iter, data_iter |-> data_iter + 1, rng |-> rng]

\* try: batch = next(data_iter)[0]
\* except StopIteration: epoch += 1; data_iter = iter(dataloader);
\*                       batch = next(data_iter)[0]
Fetch(dataloader, data_iter, rng, epoch) ==
    LET first == NextBatch(dataloader, data_iter, rng)
        again == NextBatch(dataloader, 0, rng)
    IN  IF "raised" \notin DOMAIN first THEN [first EXCEPT !.batch = <<first.batch>>] @@ [epoch |-> epoch]
        ELSE IF "raised" \in DOMAIN again THEN again
        ELSE [again EXCEPT !.batch = <<again.batch>>] @@ [epoch |-> epoch + 1]

Divides(freq, step) == freq # None /\ step % freq[1] = 0

\* if step % config.print_freq == 0
Logs(c, step) == step % c.print_freq = 0

\* if plot_results_fn is not None and config.image_freq is not None
\*    and step % config.image_freq == 0
Plots(args, step) ==
    args.plot_results_fn # "None" /\ Divides(args.config.image_freq, step)

\* if ((config.save_freq is not None and step % config.save_freq == 0
\*      and step > 0) or step == config.steps) and out_dir is not None
Saves(args, step) ==
    /\ (Divides(args.config.save_freq, step) /\ step > 0) \/ step = args.config.steps
    /\ args.out_dir # "None"

\* the draws the plot hook makes from the process-wide generator:
\* resid_mlp's hook iterates the training dataloader in
\* plot_subnetwork_correlations, and a generated batch is a draw
PlotDraws(args) ==
    IF args.plot_results_fn = "resid_mlp_plot_results_fn" /\ args.dataloader.kind = "generated"
       /\ args.dataloader.n_batches > 0
    THEN 1 ELSE 0

InitOptimize ==
    /\ kwargs = None
    /\ config = None
    /\ config_error = Ok
    /\ step_assert = "not_run"
    /\ tk = Idle
    /\ fw = Idle
    /\ pm = Idle
    /\ fn = Idle
    /\ \E args \in OptimizeArgs :
        op = [phase |-> "running", args |-> args, step |-> 0, epoch |-> 0, data_iter |-> 0,
              rng |-> 0, batches |-> <<>>, updates |-> 0, written |-> {},
              logs |-> {}, plots |-> {}, checkpoints |-> {}, raised |-> Ok]

\* one iteration of the loop over range(config.steps + 1)
OptimizeStep ==
    /\ op # Idle
    /\ op.phase = "running"
    /\ op.step <= op.args.config.steps
    /\ LET c == op.args.config
           step == op.step
           step_lr == get_lr_with_warmup(step, c.steps, c.lr_schedule,
                                         c.lr_exponential_halflife, c.lr_warmup_pct)
           got == Fetch(op.args.dataloader, op.data_iter, op.rng, op.epoch)
           \* if config.unit_norm_matrices: model.set_matrices_to_unit_norm()
           normed == IF c.unit_norm_matrices THEN op.written \cup UnitNormParams
                     ELSE op.written
       IN  IF step_lr = ZeroDivisionError
           THEN op' = [op EXCEPT !.phase = "raised", !.raised = "ZeroDivisionError",
                                 !.written = normed]
           ELSE IF "raised" \in DOMAIN got
           THEN op' = [op EXCEPT !.phase = "raised", !.raised = got.raised,
                                 !.epoch = op.epoch + 1, !.data_iter = 0,
                                 !.written = normed]
           ELSE op' = [op EXCEPT
                    !.step = step + 1,
                    !.epoch = got.epoch,
                    !.data_iter = got.data_iter,
                    !.batches = Append(op.batches, got.batch),
                    !.logs = IF Logs(c, step)
                             THEN op.logs \cup {[step |-> step, wandb |-> c.wandb_project # "None"]}
                             ELSE op.logs,
                    !.plots = IF Plots(op.args, step) THEN op.plots \cup {step} ELSE op.plots,
                    !.rng = IF Plots(op.args, step) THEN got.rng + PlotDraws(op.args)
                            ELSE got.rng,
                    !.checkpoints = IF Saves(op.args, step)
                                    THEN op.checkpoints \cup {[step |-> step, updates |-> op.updates]}
                                    ELSE op.checkpoints,
                    \* if step != config.steps: loss.backward(); opt.step()
                    !.updates = IF step # c.steps THEN op.updates + 1 ELSE op.updates,
                    !.written = IF step # c.steps THEN normed \cup OptimizerParams
                                ELSE normed]
    /\ UNCHANGED <<kwargs, config, config_error, step_assert, tk, fw, pm, fn>>

\* the loop is over: optimize returns
OptimizeReturn ==
    /\ op # Idle
    /\ op.phase = "running"
    /\ op.step = op.args.config.steps + 1
    /\ op' = [op EXCEPT !.phase = "returned"]
    /\ UNCHANGED <<kwargs, config, config_error, step_assert, tk, fw, pm, fn>>

NextOptimize == OptimizeStep \/ OptimizeReturn

SpecOptimize == InitOptimize /\ [][NextOptimize]_vars

(***************************************************************************)
(* The loss terms of one optimize step: which loss functions the step      *)
(* evaluates and which terms it adds to the loss.                          *)
(***************************************************************************)
\* the terms in the order the step computes them
LossTerms ==
    <<"out_recon", "param_match", "lp_sparsity", "topk_l2", "topk_recon", "act_recon",
      "schatten">>

\* config.<term>_coeff
CoeffOf(c, term) ==
    CASE term = "out_recon" -> c.out_recon_coeff
      [] term = "param_match" -> c.param_match_coeff
      [] term = "lp_sparsity" -> c.lp_sparsity_coeff
      [] term = "topk_l2" -> c.topk_l2_coeff
      [] term = "topk_recon" -> c.topk_recon_coeff
      [] term = "act_recon" -> c.act_recon_coeff
      [] term = "schatten" -> c.schatten_coeff

\* mutant: every loss function is evaluated whatever the coefficient
EvaluatesLossAlways(c, term) == term \in {"topk_l2", "topk_recon"} => c.topk # None

\* the condition under which the step calls the term's loss function:
\* calc_recon_mse(out, target_out, ...) is called in every step, topk_l2 and
\* topk_recon inside "if config.topk is not None"
EvaluatesLoss(c, term) ==
    CASE term = "out_recon" -> TRUE
      [] term \in {"topk_l2", "topk_recon"} -> c.topk # None /\ CoeffOf(c, term) # None
      [] OTHER -> CoeffOf(c, term) # None

\* the assertions of StepAssertions that stand before the term's loss
\* function (those of the top-k mask stand before topk_l2)
AssertionsBefore(term) ==
    CASE term = "lp_sparsity" -> {2}
      [] term = "topk_l2" -> {3, 4}
      [] term = "act_recon" -> {5}
      [] term = "schatten" -> {6, 7}
      [] OTHER -> {}

\* the assertion that stops the step at the term, or Ok
TermAssertion(c, model, term) ==
    LET checks == StepAssertions(c, model)
        failing == {i \in AssertionsBefore(term) : checks[i] # Ok}
    IN  IF failing = {} THEN Ok
        ELSE checks[CHOOSE i \in failing : \A j \in failing : i <= j]

\* the terms i..7 of the step, given what the terms before them evaluated
RECURSIVE EvaluateTerms(_, _, _, _)
EvaluateTerms(c, model, i, evaluated) ==
    IF i > Len(LossTerms) THEN [evaluated |-> evaluated, raised |-> Ok]
    ELSE LET term == LossTerms[i]
         IN  IF TermAssertion(c, model, term) # Ok
             THEN [evaluated |-> evaluated, raised |-> TermAssertion(c, model, term)]
             ELSE EvaluateTerms(c, model, i + 1,
                                IF EvaluatesLoss(c, term) THEN evaluated \cup {term}
                                ELSE evaluated)

\* "Add up the loss terms": out_recon is added if its coefficient is set,
\* every other term if its loss is not None
AddsTerm(c, evaluated, term) ==
    IF term = "out_recon" THEN c.out_recon_coeff # None ELSE term \in evaluated

\* the losses of one step: the loss functions evaluated, the terms added
LossOfStep(c, model) ==
    LET r == EvaluateTerms(c, model, 1, {})
    IN  [evaluated |-> r.evaluated, raised |-> r.raised,
         added |-> IF r.raised # Ok THEN {}
                   ELSE {LossTerms[i] : i \in {j \in 1..Len(LossTerms) :
                                                  AddsTerm(c, r.evaluated, LossTerms[j])}}]

\* the configs validate_model accepts, over the fields the loss terms read
LossConfigs ==
    {c \in [spd_type : SpdTypes, topk : {None, <<1, 1>>}, batch_topk : {TRUE},
            exact_topk : {FALSE}, batch_size : {1},
            param_match_coeff : Coeff, out_recon_coeff : Coeff,
            act_recon_coeff : Coeff, topk_recon_coeff : Coeff, topk_l2_coeff : Coeff,
            schatten_coeff : Coeff, schatten_pnorm : Coeff, lp_sparsity_coeff : Coeff,
            distil_from_target : {FALSE}, pnorm : Coeff, m : {None},
            lr_schedule : {"constant"}, lr_exponential_halflife : {None},
            unit_norm_matrices : {FALSE},
            task_config : {t \in TaskConfigs : ~t.handcoded_AB}] :
        validate_model(c) = Ok}

InitLossTerms ==
    /\ kwargs = None
    /\ config = None
    /\ config_error = Ok
    /\ step_assert = "not_run"
    /\ tk = Idle
    /\ fw = Idle
    /\ pm = Idle
    /\ op = Idle
    /\ \E c \in LossConfigs :
        fn = [phase |-> "inputs", name |-> "loss", c |-> c, result |-> None]

\* the loss computation of one iteration of optimize
CalcLossTerms ==
    /\ fn.phase = "inputs"
    /\ fn.name = "loss"
    /\ \E model \in ModelAttrs :
        fn' = [fn EXCEPT !.phase = "called", !.result = LossOfStep(fn.c, model)]
    /\ UNCHANGED <<kwargs, config, config_error, step_assert, tk, fw, pm, op>>

NextLossTerms == CalcLossTerms

SpecLossTerms == InitLossTerms /\ [][NextLossTerms]_vars

(***************************************************************************)
(* The Lp sparsity loss.  The floor 1e-16 is kept as a symbol eps: a value *)
(* is a polynomial in eps with integer coefficients num[1] + num[2] * eps  *)
(* + ... over a positive integer den.  The power step_pnorm * 0.5 is kept  *)
(* exact by taking pnorm among the even integers.                          *)
(***************************************************************************)
Abs(v) == IF v < 0 THEN -v ELSE v

Max(a, b) == IF a > b THEN a ELSE b

PolyCoeff(p, i) == IF i \in 1..Len(p) THEN p[i] ELSE 0

PolyAdd(p, q) == [i \in 1..Max(Len(p), Len(q)) |-> PolyCoeff(p, i) + PolyCoeff(q, i)]

PolyMul(p, q) ==
    [i \in 1..(Len(p) + Len(q) - 1) |->
        SumTo([j \in 1..i |-> PolyCoeff(p, j) * PolyCoeff(q, i - j + 1)], i)]

RECURSIVE PolyPow(_, _)
PolyPow(p, e) == IF e = 0 THEN <<1>> ELSE PolyMul(p, PolyPow(p, e - 1))

RECURSIVE IntPow(_, _)
IntPow(b, e) == IF e = 0 THEN 1 ELSE b * IntPow(b, e - 1)

RECURSIVE PolySumTo(_, _)
\* f[1] + ... + f[n] for polynomials
PolySumTo(f, n) == IF n = 0 THEN <<0>> ELSE PolyAdd(PolySumTo(f, n - 1), f[n])

\* mutant: the power is taken without the floor
FlooredNoFloor(q) == [num |-> <<q[1]>>, den |-> q[2]]

\* q + 1e-16 for a fraction q
Floored(q) == [num |-> <<q[1], q[2]>>, den |-> q[2]]

\* (attributions / d_model_out).abs() for one entry
AveragedAbs(attribution, d_model_out) == <<Abs(attribution), d_model_out>>

\* step_pnorm * 0.5
HalfPnorm(step_pnorm) == IntOf(<<step_pnorm[1], step_pnorm[2] * 2>>)

\* calc_lp_sparsity_loss: (attributions.abs() + 1e-16) ** (step_pnorm * 0.5)
\* for every entry
calc_lp_sparsity_loss(attributions, d_model_out, step_pnorm) ==
    [x \in DOMAIN attributions.v |->
        LET floored == Floored(AveragedAbs(attributions.v[x], d_model_out))
        IN  [num |-> PolyPow(floored.num, HalfPnorm(step_pnorm)),
             den |-> IntPow(floored.den, HalfPnorm(step_pnorm))]]

\* the denominator the entries of one call share
LpDen(d_model_out, step_pnorm) == IntPow(d_model_out, HalfPnorm(step_pnorm))

\* lp_sparsity_loss_per_k.sum(dim=-1).mean(dim=0), for each instance
lp_sparsity_loss(per_k, attributions, d_model_out, step_pnorm) ==
    [i \in 1..attributions.inst |->
        [num |-> PolySumTo([b \in 1..attributions.batch |->
                              PolySumTo([kk \in 1..attributions.k |-> per_k[<<b, i, kk>>].num],
                                        attributions.k)],
                           attributions.batch),
         den |-> LpDen(d_model_out, step_pnorm) * attributions.batch]]

\* attributions of either sign
LpAttributions ==
    UNION {{Tensor(sh[1], sh[2], sh[3], sh[4], v) :
                v \in [Cells(sh[1], sh[2], sh[4]) -> EntryValues]} : sh \in TensorShapes}

\* pnorm with step_pnorm * 0.5 a whole number
LpPnorms == {<<2, 1>>, <<4, 1>>}

InitLpSparsity ==
    /\ kwargs = None
    /\ config = None
    /\ config_error = Ok
    /\ step_assert = "not_run"
    /\ tk = Idle
    /\ fw = Idle
    /\ pm = Idle
    /\ op = Idle
    /\ \E a \in LpAttributions, d \in 1..MaxDim, pnorm \in LpPnorms :
        fn = [phase |-> "inputs", name |-> "calc_lp_sparsity_loss", attributions |-> a,
              d_model_out |-> d, pnorm |-> pnorm, per_k |-> None, result |-> None]

\* the Lp sparsity loss of one iteration of optimize
CalcLpSparsity ==
    /\ fn.phase = "inputs"
    /\ fn.name = "calc_lp_sparsity_loss"
    /\ LET per_k == calc_lp_sparsity_loss(fn.attributions, fn.d_model_out, fn.pnorm)
       IN  fn' = [fn EXCEPT !.phase = "called", !.per_k = per_k,
                    !.result = lp_sparsity_loss(per_k, fn.attributions, fn.d_model_out,
                                                fn.pnorm)]
    /\ UNCHANGED <<kwargs, config, config_error, step_assert, tk, fw, pm, op>>

NextLpSparsity == CalcLpSparsity

SpecLpSparsity == InitLpSparsity /\ [][NextLpSparsity]_vars

(***************************************************************************)
(* optimize, one action per block of its body.  op.pc names the block that *)
(* runs next; op.trace lists the blocks the current iteration has run.     *)
(* The SPD parameters are named by the number of optimizer updates applied *)
(* (version) and by whether an update has changed them since they were     *)
(* last normalised (dirty).                                                *)
(***************************************************************************)
\* the names a parameter dictionary or param_map may hold
ParamNames == {"W", "W_T"}

\* the non-empty sets of names
KeySets == SUBSET ParamNames \ {{}}

\* param_map: None or a dict from names to names
ParamMapArgs == {None} \cup UNION {[keys -> ParamNames] : keys \in KeySets}

BlockConfigs ==
    {c \in [steps : 1..MaxSteps, topk : {None, <<1, 1>>}, unit_norm_matrices : BOOLEAN,
            param_match_coeff : Coeff, save_freq : {None, <<1, 1>>},
            lr_schedule : LrSchedules, lr_warmup_pct : WarmupPcts,
            lr_exponential_halflife : {None, <<1, 1>>}] :
        c.lr_schedule = "exponential" <=> c.lr_exponential_halflife # None}

\* the state of a call of optimize before its first statement
OptimizeCall(c, out_dir, param_map, target_keys, model_keys) ==
    [phase |-> "initializing", pc |-> "setup", config |-> c, out_dir |-> out_dir,
     param_map |-> param_map, target_keys |-> target_keys, model_keys |-> model_keys,
     step |-> 0, iterations |-> 0, trace |-> <<>>,
     version |-> 0, dirty |-> FALSE,
     pass |-> None, attributions |-> None, mask |-> None, masked_pass |-> None,
     grad |-> None, fixes |-> 0, backwards |-> 0, updates |-> <<>>,
     uses |-> {}, checkpoints |-> {}, raised |-> Ok]

\* set(param_map.keys()), set(param_map.values())
KeysOf(param_map) == DOMAIN param_map

ValuesOf(param_map) == {param_map[x] : x \in DOMAIN param_map}

AssertParamMap == "Need a param_map for param_match loss"

AssertParamMapKeys ==
    "assert set(param_map.keys()) == set(pretrained_model.all_decomposable_params().keys())"

AssertParamMapValues ==
    "assert set(param_map.values()) == set(model.all_subnetwork_params_summed().keys())"

\* mutant: the values of param_map are not compared
SetupAssertionKeysOnly(c, param_map, target_keys, model_keys) ==
    IF c.param_match_coeff = None THEN Ok
    ELSE IF param_map = None THEN AssertParamMap
    ELSE IF KeysOf(param_map) # target_keys THEN AssertParamMapKeys
    ELSE Ok

\* the assertions before the loop (lines 486-490)
SetupAssertion(c, param_map, target_keys, model_keys) ==
    IF c.param_match_coeff = None THEN Ok
    ELSE IF param_map = None THEN AssertParamMap
    ELSE IF KeysOf(param_map) # target_keys THEN AssertParamMapKeys
    ELSE IF ValuesOf(param_map) # model_keys THEN AssertParamMapValues
    ELSE Ok

\* a block has run: it is added to the trace and pc moves on
Ran(block, next) == [op EXCEPT !.trace = Append(op.trace, block), !.pc = next]

AtBlock(block) == op.phase = "stepping" /\ op.pc = block

OtherVarsUnchanged == UNCHANGED <<kwargs, config, config_error, step_assert, tk, fw, pm, fn>>

\* lines 478-501: optimizer, schedule, param_map assertions, n_params
OptimizeSetup ==
    /\ op.phase = "initializing"
    /\ LET failed == SetupAssertion(op.config, op.param_map, op.target_keys, op.model_keys)
       IN  op' = IF failed # Ok THEN [op EXCEPT !.phase = "raised", !.raised = failed]
                 ELSE [op EXCEPT !.phase = "stepping", !.pc = "unit_norm"]
    /\ OtherVarsUnchanged

\* mutant: the matrices are normalised in the iterations that update only
NormalisesMatricesBeforeUpdates(c, step) == c.unit_norm_matrices /\ step # c.steps

\* line 503: if config.unit_norm_matrices
NormalisesMatrices(c, step) == c.unit_norm_matrices

\* lines 503-507: if config.unit_norm_matrices: model.set_matrices_to_unit_norm()
SetMatricesToUnitNorm ==
    /\ AtBlock("unit_norm")
    /\ op' = [op EXCEPT !.pc = "lr",
                        !.iterations = op.iterations + 1,
                        !.dirty = IF NormalisesMatrices(op.config, op.step) THEN FALSE
                                  ELSE op.dirty]
    /\ OtherVarsUnchanged

\* lines 509-518: step_lr, opt.zero_grad(set_to_none=True)
SetStepLr ==
    /\ AtBlock("lr")
    /\ LET step_lr == get_lr_with_warmup(op.step, op.config.steps, op.config.lr_schedule,
                                         op.config.lr_exponential_halflife,
                                         op.config.lr_warmup_pct)
       IN  op' = IF step_lr = ZeroDivisionError
                 THEN [op EXCEPT !.phase = "raised", !.raised = "ZeroDivisionError"]
                 ELSE [op EXCEPT !.pc = "batch", !.grad = None]
    /\ OtherVarsUnchanged

\* lines 519-527: the batch of the iteration
DrawBatch ==
    /\ AtBlock("batch")
    /\ op' = Ran("batch", "target_forward")
    /\ OtherVarsUnchanged

\* line 529: pretrained_model(batch)
TargetForward ==
    /\ AtBlock("target_forward")
    /\ op' = Ran("target_forward", "spd_forward")
    /\ OtherVarsUnchanged

\* line 534: model(batch), all subnetworks
SpdForward ==
    /\ AtBlock("spd_forward")
    /\ op' = [Ran("spd_forward", "attributions") EXCEPT
                !.pass = [step |-> op.step, version |-> op.version],
                !.uses = op.uses \cup {[block |-> "spd_forward", dirty |-> op.dirty]}]
    /\ OtherVarsUnchanged

\* mutant: the attributions of the step before are kept when there are any
AttributionsKept(pass, attributions) == IF attributions = None THEN pass ELSE attributions

\* lines 550-559: attributions = calculate_attributions(out=out,
\* inner_acts=inner_acts, ...), from the pass of line 534
AttributionsOf(pass, attributions) == pass

\* lines 536-566: out_recon and param_match losses, attributions, Lp loss
CalculateAttributions ==
    /\ AtBlock("attributions")
    /\ op' = [Ran("attributions", IF op.config.topk # None THEN "topk_mask" ELSE "sum_loss")
                EXCEPT !.attributions = AttributionsOf(op.pass, op.attributions),
                       !.uses = op.uses \cup {[block |-> "loss", dirty |-> op.dirty]}]
    /\ OtherVarsUnchanged

\* lines 576-599: topk_mask = calc_topk_mask(topk_attrs, ...)
TopkMaskOfStep ==
    /\ AtBlock("topk_mask")
    /\ op' = [Ran("topk_mask", "masked_forward") EXCEPT !.mask = op.attributions]
    /\ OtherVarsUnchanged

\* lines 601-613: model(batch, topk_mask=topk_mask), top-k losses
MaskedForward ==
    /\ AtBlock("masked_forward")
    /\ op' = [Ran("masked_forward", "sum_loss") EXCEPT
                !.masked_pass = [step |-> op.step, version |-> op.version, mask |-> op.mask],
                !.uses = op.uses \cup {[block |-> "masked_forward", dirty |-> op.dirty]}]
    /\ OtherVarsUnchanged

\* lines 615-680: the remaining terms and the sum of the enabled terms
SumLoss ==
    /\ AtBlock("sum_loss")
    /\ op' = [Ran("sum_loss", "side_effects") EXCEPT
                !.uses = op.uses \cup {[block |-> "loss", dirty |-> op.dirty]}]
    /\ OtherVarsUnchanged

\* the checkpoint condition of lines 754-757
SavesCheckpoint(c, out_dir, step) ==
    /\ (Divides(c.save_freq, step) /\ step > 0) \/ step = c.steps
    /\ out_dir # "None"

\* lines 682-761: logging, plot_results_fn, checkpoint
SideEffects ==
    /\ AtBlock("side_effects")
    /\ op' = [Ran("side_effects", IF op.step # op.config.steps THEN "backward" ELSE "end")
                EXCEPT !.checkpoints =
                    IF SavesCheckpoint(op.config, op.out_dir, op.step)
                    THEN op.checkpoints \cup {[step |-> op.step, version |-> op.version,
                                               dirty |-> op.dirty]}
                    ELSE op.checkpoints]
    /\ OtherVarsUnchanged

\* mutant: the gradients are projected at the iterations of even step only
ProjectsGradientsEvenSteps(c, step) == c.unit_norm_matrices /\ step % 2 = 0

\* line 774: if config.unit_norm_matrices
ProjectsGradients(c, step) == c.unit_norm_matrices

\* lines 764-772: loss.backward(), grad_norm
Backward ==
    /\ AtBlock("backward")
    /\ op' = [Ran("backward", IF ProjectsGradients(op.config, op.step) THEN "fix_gradients"
                              ELSE "opt_step")
                EXCEPT !.grad = [step |-> op.step, projected |-> FALSE],
                       !.backwards = op.backwards + 1]
    /\ OtherVarsUnchanged

\* lines 774-778: model.fix_normalized_adam_gradients()
FixNormalizedAdamGradients ==
    /\ AtBlock("fix_gradients")
    /\ op' = [Ran("fix_gradients", "opt_step") EXCEPT
                !.grad = [op.grad EXCEPT !.projected = TRUE],
                !.fixes = op.fixes + 1]
    /\ OtherVarsUnchanged

\* line 780: opt.step()
OptStep ==
    /\ AtBlock("opt_step")
    /\ op' = [Ran("opt_step", "end") EXCEPT
                !.version = op.version + 1,
                !.dirty = TRUE,
                !.updates = Append(op.updates, [step |-> op.step, grad |-> op.grad,
                                                fixes |-> op.fixes])]
    /\ OtherVarsUnchanged

\* line 502: the next step of range(config.steps + 1), or the end of the loop
NextIteration ==
    /\ AtBlock("end")
    /\ op' = IF op.step < op.config.steps
             THEN [op EXCEPT !.step = op.step + 1, !.pc = "unit_norm", !.trace = <<>>,
                             !.fixes = 0]
             ELSE [op EXCEPT !.phase = "finished", !.pc = "returned"]
    /\ OtherVarsUnchanged

NextBlocks ==
    \/ OptimizeSetup \/ SetMatricesToUnitNorm \/ SetStepLr \/ DrawBatch \/ TargetForward
    \/ SpdForward \/ CalculateAttributions \/ TopkMaskOfStep \/ MaskedForward \/ SumLoss
    \/ SideEffects \/ Backward \/ FixNormalizedAdamGradients \/ OptStep \/ NextIteration

InitNotOptimize ==
    /\ kwargs = None
    /\ config = None
    /\ config_error = Ok
    /\ step_assert = "not_run"
    /\ tk = Idle
    /\ fw = Idle
    /\ pm = Idle
    /\ fn = Idle

\* calls of optimize whose param_map fits the two models when it is needed
InitBlocks ==
    /\ InitNotOptimize
    /\ \E c \in BlockConfigs, out_dir \in {"None", "out"} :
        op = OptimizeCall(c, out_dir,
                          IF c.param_match_coeff = None THEN None
                          ELSE [x \in ParamNames |-> x],
                          ParamNames, ParamNames)

SpecBlocks == InitBlocks /\ [][NextBlocks]_vars

\* calls of optimize with any param_map and any two key sets; the lr fields
\* are those of a constant schedule
InitSetup ==
    /\ InitNotOptimize
    /\ \E c \in {b \in BlockConfigs : b.lr_schedule = "constant" /\ b.lr_warmup_pct[1] = 0
                                      /\ b.steps = 1 /\ b.save_freq = None} :
        \E param_map \in ParamMapArgs, target_keys \in KeySets, model_keys \in KeySets :
            op = OptimizeCall(c, "None", param_map, target_keys, model_keys)

SpecSetup == InitSetup /\ [][NextBlocks]_vars

(***************************************************************************)
(* The total loss of one optimize step.  A loss value is num / den with    *)
(* num a polynomial in eps (the floor 1e-16) and den a positive integer; a *)
(* loss tensor is a record of its shape, <<>> for a scalar and <<n>> for   *)
(* one value per instance, and of its entries.                             *)
(***************************************************************************)
\* the step's data are picked among the patterns 0..MaxSeed
MaxSeed == 1

\* the coefficient fields are NonNegativeFloat | None
LossCoeffs == {None, <<0, 1>>, <<2, 1>>}

RECURSIVE GCD(_, _)
GCD(a, b) == IF b = 0 THEN a ELSE GCD(b, a % b)

LCM(a, b) == (a \div GCD(a, b)) * b

Val(q) == [num |-> <<q[1]>>, den |-> q[2]]

PolyScale(p, n) == [i \in 1..Len(p) |-> n * p[i]]

ValAdd(x, y) ==
    LET den == LCM(x.den, y.den)
    IN  [num |-> PolyAdd(PolyScale(x.num, den \div x.den), PolyScale(y.num, den \div y.den)),
         den |-> den]

\* a coefficient or a mask entry times a loss value
ValTimes(q, x) == [num |-> PolyScale(x.num, q[1]), den |-> q[2] * x.den]

ValDiv(x, n) == [num |-> x.num, den |-> x.den * n]

ValPow(x, e) == [num |-> PolyPow(x.num, e), den |-> IntPow(x.den, e)]

RECURSIVE ValSumTo(_, _)
\* f[1] + ... + f[n] for loss values
ValSumTo(f, n) == IF n = 0 THEN Val(<<0, 1>>) ELSE ValAdd(ValSumTo(f, n - 1), f[n])

\* x + 1e-16
ValFloored(x) == ValAdd(x, [num |-> <<0, 1>>, den |-> 1])

\* the loss tensor of a function that returns fractions: one per instance
\* when the model has an instance dimension, otherwise a scalar
FracTensor(has_instance_dim, r) ==
    IF has_instance_dim
    THEN [shape |-> <<Len(r)>>, at |-> [i \in DOMAIN r |-> Val(r[i])]]
    ELSE [shape |-> <<>>, at |-> <<Val(r)>>]

\* the shape of an activation tensor: [batch, (n_instances,) d_out]
ActShape(batch, model, d) ==
    IF model.has_n_instances THEN <<batch, model.n_instances, d>> ELSE <<batch, d>>

\* torch broadcasting of a tensor of shape (1,) with a tensor of shape s
BroadcastOne(s) == IF s = <<>> THEN <<1>> ELSE s

\* ((target_post_acts[layer_name] - layer_acts[layer_name]) ** 2).sum(dim=-1)
ActError(target_post_acts, layer_acts, d, j, b, i) ==
    SumTo([f \in 1..d |->
             (target_post_acts[<<j, b, i, f>>] - layer_acts[<<j, b, i, f>>])
             * (target_post_acts[<<j, b, i, f>>] - layer_acts[<<j, b, i, f>>])],
          d)

\* .mean(dim=0) of a tensor of the given shape: the batch axis goes
ActReconMean(shape) == Tail(shape)

\* calc_act_recon over the layers 1..n_layers, each of shape
\* [batch, (n_instances,) d]: (loss / total_act_dim).mean(dim=0)
calc_act_recon(target_post_acts, layer_acts, n_layers, batch, model, d) ==
    LET error_shape == SubSeq(ActShape(batch, model, d), 1, Len(ActShape(batch, model, d)) - 1)
        shape == ActReconMean(BroadcastOne(error_shape))
        total_act_dim == n_layers * d
        loss(b, i) == SumTo([j \in 1..n_layers |->
                               ActError(target_post_acts, layer_acts, d, j, b, i)],
                            n_layers)
        mean(i) == <<SumTo([b \in 1..batch |-> loss(b, i)], batch), total_act_dim * batch>>
    IN  IF shape = <<>>
        THEN [shape |-> shape,
              at |-> <<Val(<<SumTo([i \in 1..model.n_instances |-> mean(i)[1]],
                                   model.n_instances),
                             total_act_dim * batch * model.n_instances>>)>>]
        ELSE [shape |-> shape, at |-> [i \in 1..shape[1] |-> Val(mean(i))]]

\* S_A * S_B at subnetwork kk and rank index mm of layer j, instance i
S_AB(A, B, d, j, i, kk, mm) ==
    SumTo([r \in 1..d |-> A[<<j, i, kk, r, mm>>] * A[<<j, i, kk, r, mm>>]], d)
    * SumTo([c \in 1..d |-> B[<<j, i, kk, mm, c>>] * B[<<j, i, kk, mm, c>>]], d)

\* calc_schatten_loss over the layers 1..n_layers with A of shape
\* [(n_instances,) k, d, m] and B of shape [(n_instances,) k, m, d]; the
\* mask is a tensor [batch, (n_instances,) k] of loss values
calc_schatten_loss(A, B, n_layers, d, m, mask, p, n) ==
    LET penalty(i) ==
            ValSumTo([j \in 1..n_layers |->
                ValSumTo([b \in 1..mask.batch |->
                    ValSumTo([kk \in 1..mask.k |->
                        ValSumTo([mm \in 1..m |->
                            ValPow(ValFloored(ValTimes(<<S_AB(A, B, d, j, i, kk, mm), 1>>,
                                                       mask.v[<<b, i, kk>>])),
                                   HalfPnorm(p))],
                                 m)],
                             mask.k)],
                         mask.batch)],
                     n_layers)
    IN  [shape |-> IF mask.has_inst THEN <<mask.inst>> ELSE <<>>,
         at |-> [i \in 1..mask.inst |-> ValDiv(ValDiv(penalty(i), n), mask.batch)]]

\* lp_sparsity_loss_per_k.sum(dim=-1).mean(dim=0) as a loss tensor
LpTensor(attributions, d, pnorm) ==
    [shape |-> IF attributions.has_inst THEN <<attributions.inst>> ELSE <<>>,
     at |-> lp_sparsity_loss(calc_lp_sparsity_loss(attributions, d, pnorm), attributions,
                             d, pnorm)]

\* tensor.mean() of a loss tensor
TensorMean(t) == ValDiv(ValSumTo(t.at, Len(t.at)), Len(t.at))

\* entries -1, 0, 1 of the step's tensors, by pattern and position
Pattern(seed, s) == ((seed + s) % 3) - 1

\* the parameters of the models: MaxMatrices matrices of d_out = MaxDim
LossShapes == [j \in 1..MaxMatrices |-> [d_in |-> j - 1, d_out |-> MaxDim]]

\* out, target_out and out_topk of the step
StepOut(model, batch, seed) ==
    [x \in OutCells(batch, model, MaxDim) |-> Pattern(seed, x[1] + 2 * x[2] + x[3])]

StepTargetOut(model, batch, seed) ==
    [x \in OutCells(batch, model, MaxDim) |-> (x[1] + x[2] + x[3]) % 2]

StepOutTopk(model, batch, seed) ==
    [x \in OutCells(batch, model, MaxDim) |-> Pattern(seed, 2 * x[1] + x[2] + x[3])]

\* post_acts of the target model, layer_acts of the unmasked pass and
\* layer_acts_topk of the masked pass, over <<layer, sample, instance, f>>
ActCells(model, batch) ==
    (1..MaxMatrices) \X (1..batch) \X (1..model.n_instances) \X (1..MaxDim)

StepPostActs(model, batch, seed) ==
    [x \in ActCells(model, batch) |-> Pattern(seed, x[1] + x[2] + 2 * x[3] + x[4])]

StepLayerActs(model, batch, seed) ==
    [x \in ActCells(model, batch) |-> Pattern(seed, 2 * x[1] + x[2] + x[3] + x[4])]

StepLayerActsTopk(model, batch, seed) ==
    [x \in ActCells(model, batch) |-> Pattern(seed, x[1] + 2 * x[2] + x[3] + 2 * x[4])]

\* the weights of the target model and the summed subnetwork parameters
StepWeights(model, seed) ==
    [x \in WeightSlots(LossShapes, model) |->
        IF x[1] = "pretrained_weights" THEN (x[2] + x[3] + x[4] + x[5]) % 2
        ELSE Pattern(seed, x[2] + x[3] + x[4] + x[5])]

\* the subnetwork parameters, k = MaxK
StepSubnetParams(model, seed) ==
    [x \in SubnetSlots(LossShapes, model, MaxK) |->
        Pattern(seed, x[1] + x[2] + 2 * x[3] + x[4] + x[5])]

\* the A and B matrices, with m = MaxDim
StepA(model, seed) ==
    [x \in (1..MaxMatrices) \X (1..model.n_instances) \X (1..MaxK) \X (1..MaxDim)
           \X (1..MaxDim) |-> Pattern(seed, x[1] + x[2] + x[3] + 2 * x[4] + x[5])]

StepB(model, seed) ==
    [x \in (1..MaxMatrices) \X (1..model.n_instances) \X (1..MaxK) \X (1..MaxDim)
           \X (1..MaxDim) |-> Pattern(seed, 2 * x[1] + x[2] + x[3] + x[4] + x[5])]

\* the attributions and the top-k mask of the step
StepAttributions(model, batch, seed) ==
    Tensor(batch, model.n_instances, model.has_n_instances, MaxK,
           [x \in Cells(batch, model.n_instances, MaxK) |->
               Pattern(seed, x[1] + x[2] + x[3])])

StepTopkMask(model, batch, seed) ==
    Tensor(batch, model.n_instances, model.has_n_instances, MaxK,
           [x \in Cells(batch, model.n_instances, MaxK) |->
               (seed + x[1] + x[2] + x[3]) % 2 = 0])

\* mask = topk_mask if topk_mask is not None else lp_sparsity_loss_per_k,
\* as a tensor of loss values
SchattenMask(c, model, batch, seed) ==
    IF c.topk # None
    THEN LET mask == StepTopkMask(model, batch, seed)
         IN  [mask EXCEPT !.v = [x \in DOMAIN mask.v |-> Val(<<BoolVal(mask.v[x]), 1>>)]]
    ELSE LET attributions == StepAttributions(model, batch, seed)
         IN  [attributions EXCEPT
                !.v = calc_lp_sparsity_loss(attributions, MaxDim, c.pnorm)]

\* the activations calc_act_recon is called with: those after the ReLU for
\* the residual MLP, otherwise layer_acts_topk if there was a masked pass
ActReconTarget(c, model, batch, seed) ==
    IF c.task_config.task_name = "residual_mlp"
    THEN [x \in ActCells(model, batch) |-> relu(StepPostActs(model, batch, seed)[x])]
    ELSE StepPostActs(model, batch, seed)

ActReconLayerActs(c, model, batch, seed) ==
    IF c.task_config.task_name = "residual_mlp"
    THEN [x \in ActCells(model, batch) |-> relu(StepLayerActsTopk(model, batch, seed)[x])]
    ELSE IF c.topk = None THEN StepLayerActs(model, batch, seed)
    ELSE StepLayerActsTopk(model, batch, seed)

\* the loss tensor the step computes for a term
TermLoss(c, model, batch, seed, term) ==
    CASE term = "out_recon" ->
            FracTensor(model.has_n_instances,
                       out_recon_loss(StepOut(model, batch, seed),
                                      StepTargetOut(model, batch, seed), batch, model,
                                      MaxDim))
      [] term = "param_match" ->
            FracTensor(model.has_n_instances,
                       calc_param_match_loss(StepWeights(model, seed), LossShapes, model,
                                             [j \in 1..MaxMatrices |-> <<j, j>>],
                                             n_params(LossShapes, model)))
      [] term = "lp_sparsity" ->
            LpTensor(StepAttributions(model, batch, seed), MaxDim, c.pnorm)
      [] term = "topk_l2" ->
            FracTensor(model.has_n_instances,
                       calc_topk_l2_full_rank(StepSubnetParams(model, seed), LossShapes,
                                              model, MaxK, batch,
                                              StepTopkMask(model, batch, seed).v,
                                              n_params(LossShapes, model)))
      [] term = "topk_recon" ->
            FracTensor(model.has_n_instances,
                       calc_recon_mse(StepOutTopk(model, batch, seed),
                                      StepTargetOut(model, batch, seed), batch,
                                      model.n_instances, MaxDim, model.has_n_instances))
      [] term = "act_recon" ->
            calc_act_recon(ActReconTarget(c, model, batch, seed),
                           ActReconLayerActs(c, model, batch, seed), MaxMatrices, batch,
                           model, MaxDim)
      [] term = "schatten" ->
            calc_schatten_loss(StepA(model, seed), StepB(model, seed), MaxMatrices, MaxDim,
                               MaxDim, SchattenMask(c, model, batch, seed),
                               c.schatten_pnorm, n_params(LossShapes, model))

\* the order of "Add up the loss terms"
AddOrder ==
    <<"param_match", "out_recon", "lp_sparsity", "topk_recon", "topk_l2", "act_recon",
      "schatten">>

\* mutant: the term's entries are summed over the instances
AddTermSummed(loss, coeff, term_loss) ==
    ValAdd(loss, ValTimes(coeff, ValSumTo(term_loss.at, Len(term_loss.at))))

\* loss = loss + config.<term>_coeff * <term>_loss.mean()
AddTerm(loss, coeff, term_loss) == ValAdd(loss, ValTimes(coeff, TensorMean(term_loss)))

RECURSIVE AddUp(_, _, _, _, _)
AddUp(c, evaluated, losses, i, loss) ==
    IF i > Len(AddOrder) THEN loss
    ELSE AddUp(c, evaluated, losses, i + 1,
               IF AddsTerm(c, evaluated, AddOrder[i])
               THEN AddTerm(loss, CoeffOf(c, AddOrder[i]), losses[AddOrder[i]])
               ELSE loss)

\* the losses of one step with their values: loss = torch.tensor(0.0) and
\* the terms added in order
TotalLossOfStep(c, model, seed) ==
    LET r == LossOfStep(c, model)
        losses == [term \in r.evaluated |-> TermLoss(c, model, c.batch_size, seed, term)]
    IN  [evaluated |-> r.evaluated, raised |-> r.raised, added |-> r.added,
         losses |-> IF r.raised # Ok THEN None ELSE losses,
         loss |-> IF r.raised # Ok THEN None
                  ELSE AddUp(c, r.evaluated, losses, 1, Val(<<0, 1>>))]

\* the configs validate_model accepts for a rank-penalty model, with the
\* p-norms set where their coefficient is and at most one coefficient 0
TotalLossConfigs ==
    {c \in [spd_type : {"rank_penalty"}, topk : {None, <<1, 1>>}, batch_topk : {TRUE},
            exact_topk : {FALSE}, batch_size : 1..MaxBatch,
            param_match_coeff : LossCoeffs, out_recon_coeff : LossCoeffs,
            act_recon_coeff : LossCoeffs, topk_recon_coeff : LossCoeffs,
            topk_l2_coeff : LossCoeffs, schatten_coeff : LossCoeffs,
            schatten_pnorm : {None, <<2, 1>>}, lp_sparsity_coeff : LossCoeffs,
            distil_from_target : {FALSE}, pnorm : {None, <<2, 1>>}, m : {None},
            lr_schedule : {"constant"}, lr_exponential_halflife : {None},
            unit_norm_matrices : {FALSE},
            task_config : {t \in TaskConfigs : t.task_name \in {"tms", "residual_mlp"}}] :
        /\ validate_model(c) = Ok
        /\ (c.pnorm = None) = (c.lp_sparsity_coeff = None)
        /\ (c.schatten_pnorm = None) = (c.schatten_coeff = None)
        /\ Cardinality({i \in 1..Len(LossTerms) : CoeffOf(c, LossTerms[i]) = <<0, 1>>}) <= 1}

InitTotalLoss ==
    /\ kwargs = None
    /\ config = None
    /\ config_error = Ok
    /\ step_assert = "not_run"
    /\ tk = Idle
    /\ fw = Idle
    /\ pm = Idle
    /\ op = Idle
    /\ \E c \in TotalLossConfigs, model \in ModelAttrs, seed \in 0..MaxSeed :
        fn = [phase |-> "inputs", name |-> "total_loss", c |-> c, model |-> model,
              seed |-> seed, result |-> None]

\* the losses of one iteration of optimize and their sum
CalcTotalLoss ==
    /\ fn.phase = "inputs"
    /\ fn.name = "total_loss"
    /\ fn' = [fn EXCEPT !.phase = "called",
                !.result = TotalLossOfStep(fn.c, fn.model, fn.seed)]
    /\ UNCHANGED <<kwargs, config, config_error, step_assert, tk, fw, pm, op>>

NextTotalLoss == CalcTotalLoss

SpecTotalLoss == InitTotalLoss /\ [][NextTotalLoss]_vars

(***************************************************************************)
(* The subnetwork parameters of the TMS SPD models (tms/models.py).  The   *)
(* parameters are the entries p[x] over ParamSlots(sh); the dictionaries   *)
(* all_subnetwork_params() and all_subnetwork_params_summed() map a name   *)
(* to a function over <<instance, k, row, column>> and <<instance, row,    *)
(* column>>.  subnet_idx counts from 0.                                    *)
(***************************************************************************)
\* at most MaxChanged parameter entries differ from the initial value
MaxChanged == 2

\* rearrange(W, "i k f h -> i k h f")
Transposed4(W, sh) ==
    [x \in (1..sh.inst) \X (1..sh.k) \X (1..sh.d_out) \X (1..sh.d_in) |->
        W[<<x[1], x[2], x[4], x[3]>>]]

\* rearrange(W, "i f h -> i h f")
Transposed3(W, sh) ==
    [x \in (1..sh.inst) \X (1..sh.d_out) \X (1..sh.d_in) |-> W[<<x[1], x[3], x[2]>>]]

\* TMSSPDModel: torch.einsum("ifk,ikh->ikfh", self.A, self.B)
TMSSPDModel_all_subnetwork_params(p, sh) ==
    LET W == [x \in (1..sh.inst) \X (1..sh.k) \X (1..sh.d_in) \X (1..sh.d_out) |->
                p[<<"A", x[1], x[3], x[2], 1>>] * p[<<"B", x[1], x[2], x[4], 1>>]]
    IN  [name \in {"W", "W_T"} |-> IF name = "W" THEN W ELSE Transposed4(W, sh)]

\* TMSSPDModel: torch.einsum("ifk,ikh->ifh", self.A, self.B)
TMSSPDModel_all_subnetwork_params_summed(p, sh) ==
    LET W == [x \in (1..sh.inst) \X (1..sh.d_in) \X (1..sh.d_out) |->
                SumTo([kk \in 1..sh.k |->
                         p[<<"A", x[1], x[2], kk, 1>>] * p[<<"B", x[1], kk, x[3], 1>>]],
                      sh.k)]
    IN  [name \in {"W", "W_T"} |-> IF name = "W" THEN W ELSE Transposed3(W, sh)]

\* TMSSPDFullRankModel: self.subnetwork_params and its rearrangement
TMSSPDFullRankModel_all_subnetwork_params(p, sh) ==
    LET W == [x \in (1..sh.inst) \X (1..sh.k) \X (1..sh.d_in) \X (1..sh.d_out) |->
                p[<<"W", x[1], x[2], x[3], x[4]>>]]
    IN  [name \in {"W", "W_T"} |-> IF name = "W" THEN W ELSE Transposed4(W, sh)]

\* TMSSPDFullRankModel: self.subnetwork_params.sum(dim=-3)
TMSSPDFullRankModel_all_subnetwork_params_summed(p, sh) ==
    LET summed_params ==
            [x \in (1..sh.inst) \X (1..sh.d_in) \X (1..sh.d_out) |->
                SumTo([kk \in 1..sh.k |-> p[<<"W", x[1], kk, x[2], x[3]>>]], sh.k)]
    IN  [name \in {"W", "W_T"} |->
            IF name = "W" THEN summed_params ELSE Transposed3(summed_params, sh)]

\* TMSSPDRankPenaltyModel: torch.einsum("ikfm,ikmh->ikfh", self.A, self.B)
TMSSPDRankPenaltyModel_all_subnetwork_params(p, sh) ==
    LET W == [x \in (1..sh.inst) \X (1..sh.k) \X (1..sh.d_in) \X (1..sh.d_out) |->
                SumTo([mm \in 1..sh.m |->
                         p[<<"A", x[1], x[2], x[3], mm>>] * p[<<"B", x[1], x[2], mm, x[4]>>]],
                      sh.m)]
    IN  [name \in {"W", "W_T"} |-> IF name = "W" THEN W ELSE Transposed4(W, sh)]

\* mutant: the matrices are summed over k before they are multiplied
RankPenaltySummedProductOfSums(p, sh, i, f, h) ==
    SumTo([mm \in 1..sh.m |->
             SumTo([kk \in 1..sh.k |-> p[<<"A", i, kk, f, mm>>]], sh.k)
             * SumTo([kk \in 1..sh.k |-> p[<<"B", i, kk, mm, h>>]], sh.k)],
          sh.m)

\* torch.einsum("ikfm,ikmh->ifh", self.A, self.B) at one entry
RankPenaltySummed(p, sh, i, f, h) ==
    SumTo([kk \in 1..sh.k |->
             SumTo([mm \in 1..sh.m |->
                      p[<<"A", i, kk, f, mm>>] * p[<<"B", i, kk, mm, h>>]],
                   sh.m)],
          sh.k)

\* TMSSPDRankPenaltyModel.all_subnetwork_params_summed
TMSSPDRankPenaltyModel_all_subnetwork_params_summed(p, sh) ==
    LET W == [x \in (1..sh.inst) \X (1..sh.d_in) \X (1..sh.d_out) |->
                RankPenaltySummed(p, sh, x[1], x[2], x[3])]
    IN  [name \in {"W", "W_T"} |-> IF name = "W" THEN W ELSE Transposed3(W, sh)]

all_subnetwork_params(p, sh) ==
    CASE sh.kind = "TMSSPDModel" -> TMSSPDModel_all_subnetwork_params(p, sh)
      [] sh.kind = "TMSSPDFullRankModel" -> TMSSPDFullRankModel_all_subnetwork_params(p, sh)
      [] sh.kind = "TMSSPDRankPenaltyModel" ->
            TMSSPDRankPenaltyModel_all_subnetwork_params(p, sh)

all_subnetwork_params_summed(p, sh) ==
    CASE sh.kind = "TMSSPDModel" -> TMSSPDModel_all_subnetwork_params_summed(p, sh)
      [] sh.kind = "TMSSPDFullRankModel" ->
            TMSSPDFullRankModel_all_subnetwork_params_summed(p, sh)
      [] sh.kind = "TMSSPDRankPenaltyModel" ->
            TMSSPDRankPenaltyModel_all_subnetwork_params_summed(p, sh)

\* the slices set_subnet_to_zero and restore_subnet index:
\* TMSSPDModel A.data[:, :, subnet_idx] and B.data[:, subnet_idx, :],
\* TMSSPDFullRankModel subnetwork_params.data[:, subnet_idx, :, :],
\* TMSSPDRankPenaltyModel A.data[:, subnet_idx, :, :] and B.data[:, subnet_idx, :, :]
SubnetSlice(sh, subnet_idx) ==
    CASE sh.kind = "TMSSPDModel" ->
            {x \in ParamSlots(sh) :
                \/ x[1] = "A" /\ x[4] = subnet_idx + 1
                \/ x[1] = "B" /\ x[3] = subnet_idx + 1}
      [] sh.kind = "TMSSPDFullRankModel" ->
            {x \in ParamSlots(sh) : x[1] = "W" /\ x[3] = subnet_idx + 1}
      [] sh.kind = "TMSSPDRankPenaltyModel" ->
            {x \in ParamSlots(sh) : x[1] \in {"A", "B"} /\ x[3] = subnet_idx + 1}

\* mutant: the stored values are views of the parameters, zeroed with them
stored_valsView(p, sh, subnet_idx) == [x \in SubnetSlice(sh, subnet_idx) |-> 0]

\* stored_vals: the slices, detached and cloned
stored_vals(p, sh, subnet_idx) == [x \in SubnetSlice(sh, subnet_idx) |-> p[x]]

\* the parameters after set_subnet_to_zero(subnet_idx)
set_subnet_to_zero(p, sh, subnet_idx) ==
    [x \in DOMAIN p |-> IF x \in SubnetSlice(sh, subnet_idx) THEN 0 ELSE p[x]]

\* the parameters after restore_subnet(subnet_idx, stored)
restore_subnet(p, sh, subnet_idx, stored) ==
    [x \in DOMAIN p |-> IF x \in SubnetSlice(sh, subnet_idx) THEN stored[x] ELSE p[x]]

\* the TMS SPD models within the bounds of the forward passes
TmsShapes == {sh \in LayerShapes : IsTMS(sh) /\ sh.batch = 1}

\* the values a parameter entry is changed to
ChangedValues == {-1, 0, 2}

ChangedSlots(p) == {x \in DOMAIN p : p[x] # 1}

\* a TMS SPD model with every parameter entry one
InitTms ==
    /\ kwargs = None
    /\ config = None
    /\ config_error = Ok
    /\ step_assert = "not_run"
    /\ tk = Idle
    /\ fw = Idle
    /\ pm = Idle
    /\ op = Idle
    /\ \E sh \in TmsShapes :
        fn = [phase |-> "params", name |-> "tms", sh |-> sh,
              p |-> [x \in ParamSlots(sh) |-> 1], before |-> None, subnet_idx |-> None,
              stored |-> None, result |-> None]

\* a parameter entry takes a value (initialisation, training)
SetTmsParam ==
    /\ fn.name = "tms"
    /\ fn.phase = "params"
    /\ Cardinality(ChangedSlots(fn.p)) < MaxChanged
    /\ \E x \in DOMAIN fn.p, v \in ChangedValues :
        /\ fn.p[x] = 1
        /\ fn' = [fn EXCEPT !.p[x] = v]
    /\ UNCHANGED <<kwargs, config, config_error, step_assert, tk, fw, pm, op>>

\* both dictionaries of the model's subnetwork parameters are read
ReadSubnetworkParams ==
    /\ fn.name = "tms"
    /\ fn.phase = "params"
    /\ fn' = [fn EXCEPT !.phase = "read",
                !.result = [params |-> all_subnetwork_params(fn.p, fn.sh),
                            summed |-> all_subnetwork_params_summed(fn.p, fn.sh)]]
    /\ UNCHANGED <<kwargs, config, config_error, step_assert, tk, fw, pm, op>>

\* stored_vals = model.set_subnet_to_zero(subnet_idx)
SetSubnetToZero ==
    /\ fn.name = "tms"
    /\ fn.phase = "params"
    /\ \E subnet_idx \in 0..(fn.sh.k - 1) :
        fn' = [fn EXCEPT !.phase = "zeroed", !.before = fn.p, !.subnet_idx = subnet_idx,
                 !.stored = stored_vals(fn.p, fn.sh, subnet_idx),
                 !.p = set_subnet_to_zero(fn.p, fn.sh, subnet_idx)]
    /\ UNCHANGED <<kwargs, config, config_error, step_assert, tk, fw, pm, op>>

\* model.restore_subnet(subnet_idx, stored_vals)
RestoreSubnet ==
    /\ fn.name = "tms"
    /\ fn.phase = "zeroed"
    /\ fn' = [fn EXCEPT !.phase = "restored",
                !.p = restore_subnet(fn.p, fn.sh, fn.subnet_idx, fn.stored)]
    /\ UNCHANGED <<kwargs, config, config_error, step_assert, tk, fw, pm, op>>

NextTms == SetTmsParam \/ ReadSubnetworkParams \/ SetSubnetToZero \/ RestoreSubnet

SpecTms == InitTms /\ [][NextTms]_vars

(***************************************************************************)
(* permute_to_identity (utils.py) with normalize_rows=False.  A matrix is  *)
(* a sequence of rows; row and column indices count from 0 as in the       *)
(* code, so x[r + 1][c + 1] is the entry of row r and column c.            *)
(***************************************************************************)
\* square matrices of 1..MaxRows rows, of entries 0..MaxEntry
MaxRows == 3
MaxEntry == 2

IndexError == "IndexError"

AssertNoDuplicateRows == "assert set(max_row_indices_raw) == set(range(n_rows))"

\* mutant: the maximum is searched along the row
ArgmaxAlongRow(x, n, col) ==
    CHOOSE r \in 0..(n - 1) :
        /\ \A s \in 0..(n - 1) : x[col + 1][r + 1] >= x[col + 1][s + 1]
        /\ \A s \in 0..(r - 1) : x[col + 1][s + 1] < x[col + 1][r + 1]

\* torch.argmax(x, dim=0) at a column: the first row that holds the
\* column's maximum
Argmax(x, n, col) ==
    CHOOSE r \in 0..(n - 1) :
        /\ \A s \in 0..(n - 1) : x[r + 1][col + 1] >= x[s + 1][col + 1]
        /\ \A s \in 0..(r - 1) : x[s + 1][col + 1] < x[r + 1][col + 1]

\* the loop over range(n_rows) that fills unique_indices and
\* duplicate_indices
RECURSIVE FindDuplicates(_, _, _, _)
FindDuplicates(raw, i, unique_indices, duplicate_indices) ==
    IF i >= Len(raw)
    THEN [unique_indices |-> unique_indices, duplicate_indices |-> duplicate_indices]
    ELSE IF raw[i + 1] \in unique_indices
         THEN FindDuplicates(raw, i + 1, unique_indices, Append(duplicate_indices, i))
         ELSE FindDuplicates(raw, i + 1, unique_indices \cup {raw[i + 1]},
                             duplicate_indices)

RECURSIVE Ascending(_)
\* the elements of a set of integers in ascending order
Ascending(S) ==
    IF S = {} THEN <<>>
    ELSE LET least == CHOOSE a \in S : \A b \in S : a <= b
         IN  <<least>> \o Ascending(S \ {least})

\* mutant: the rows already used are not left out
remaining_indicesAll(n_rows, unique_indices) == Ascending(0..(n_rows - 1))

\* [i for i in range(n_rows) if i not in unique_indices]
remaining_indices(n_rows, unique_indices) == Ascending((0..(n_rows - 1)) \ unique_indices)

\* max_row_indices_raw[duplicate_indices[i]] = remaining_indices[i] for
\* every i in range(len(duplicate_indices))
SwapDuplicates(raw, duplicate_indices, remaining) ==
    [j \in 1..Len(raw) |->
        IF \E i \in 1..Len(duplicate_indices) : duplicate_indices[i] = j - 1
        THEN remaining[CHOOSE i \in 1..Len(duplicate_indices) : duplicate_indices[i] = j - 1]
        ELSE raw[j]]

\* permute_to_identity(x): the row order and the rows in that order, or the
\* exception raised (remaining_indices[i] past the end of the list, or the
\* assertion)
permute_to_identity(x) ==
    LET n_rows == Len(x)
        raw == [j \in 1..n_rows |-> Argmax(x, n_rows, j - 1)]
        found == FindDuplicates(raw, 0, {}, <<>>)
        remaining == remaining_indices(n_rows, found.unique_indices)
        swapped == SwapDuplicates(raw, found.duplicate_indices, remaining)
    IN  IF Len(found.duplicate_indices) > Len(remaining)
        THEN [raised |-> IndexError, indices |-> None, out_rows |-> None]
        ELSE IF {swapped[j] : j \in 1..n_rows} # 0..(n_rows - 1)
        THEN [raised |-> AssertNoDuplicateRows, indices |-> swapped, out_rows |-> None]
        ELSE [raised |-> Ok, indices |-> swapped,
              out_rows |-> [j \in 1..n_rows |-> x[swapped[j] + 1]]]

SetCells(x) == {c \in (1..Len(x)) \X (1..Len(x)) : x[c[1]][c[2]] # 0}

\* a square matrix of zeros
InitPermute ==
    /\ kwargs = None
    /\ config = None
    /\ config_error = Ok
    /\ step_assert = "not_run"
    /\ tk = Idle
    /\ fw = Idle
    /\ pm = Idle
    /\ op = Idle
    /\ \E n \in 1..MaxRows :
        fn = [phase |-> "inputs", name |-> "permute_to_identity",
              x |-> [r \in 1..n |-> [c \in 1..n |-> 0]], result |-> None]

\* an entry of the matrix takes a value
SetCell ==
    /\ fn.name = "permute_to_identity"
    /\ fn.phase = "inputs"
    /\ Cardinality(SetCells(fn.x)) < MaxNonzero
    /\ \E r \in 1..Len(fn.x), c \in 1..Len(fn.x), v \in 1..MaxEntry :
        /\ fn.x[r][c] = 0
        /\ fn' = [fn EXCEPT !.x[r][c] = v]
    /\ UNCHANGED <<kwargs, config, config_error, step_assert, tk, fw, pm, op>>

\* permute_to_identity(x)
CallPermute ==
    /\ fn.name = "permute_to_identity"
    /\ fn.phase = "inputs"
    /\ fn' = [fn EXCEPT !.phase = "called", !.result = permute_to_identity(fn.x)]
    /\ UNCHANGED <<kwargs, config, config_error, step_assert, tk, fw, pm, op>>

NextPermute == SetCell \/ CallPermute

SpecPermute == InitPermute /\ [][NextPermute]_vars

(***************************************************************************)
(* Claims about the forward passes, checked under SpecForward.             *)
(***************************************************************************)
Called == fw.phase = "called"

\* a tensor of zeros over the index set idx
Zeros(idx) == [c \in idx |-> 0]

\* the bias of the model's second layer, broadcast over the batch
BFinal(p, sh) == [c \in BID(sh, sh.d_in) |-> p[<<"b_final", c[2], c[3], 1, 1>>]]

\* the bias term of ParamComponentsFullRank summed over the subnetworks,
\* broadcast over the batch: what the unmasked layer returns at x = 0
SummedBias(p, sh) ==
    [c \in BID(sh, sh.d_out) |->
        SumTo([k \in 1..sh.k |-> p[<<"bias", k, c[3], 1, 1>>]], sh.k)]

\* the layer outputs that consist of the layers' bias terms alone
BiasTermAlone(p, sh) ==
    CASE sh.kind = "ParamComponents" -> <<Zeros(BID(sh, sh.d_out))>>
      [] sh.kind = "ParamComponentsFullRank" ->
            <<IF sh.bias THEN SummedBias(p, sh) ELSE Zeros(BID(sh, sh.d_out))>>
      [] IsTMS(sh) -> <<Zeros(BID(sh, sh.d_out)), BFinal(p, sh)>>

\* the layer outputs with no subnetwork contribution: a bias that belongs to
\* a subnetwork is masked with it, the bias of the model (b_final) remains
NoSubnetworkContribution(p, sh) ==
    CASE sh.kind \in {"ParamComponents", "ParamComponentsFullRank"} ->
            <<Zeros(BID(sh, sh.d_out))>>
      [] IsTMS(sh) -> <<Zeros(BID(sh, sh.d_out)), BFinal(p, sh)>>

\* C2: for each of the five forward passes and every input, a topk_mask
\* whose entries are all True returns the same output, layer activations and
\* inner activations as the forward pass with topk_mask=None.
C2_AllTrueMaskIsIdentity ==
    (Called /\ fw.mask = AllTrue(fw.sh)) => fw.result = Forward(fw.p, fw.sh, None)

\* the all-True pass has run on a full-rank layer whose bias is nonzero and
\* on a layer whose output is nonzero
C2_Witness ==
    /\ Called
    /\ fw.mask = AllTrue(fw.sh)
    /\ fw.sh.kind = "ParamComponentsFullRank"
    /\ fw.sh.bias
    /\ fw.sh.k > 1
    /\ \E x \in DOMAIN fw.p : x[1] = "bias" /\ fw.p[x] # 0
    /\ \E c \in DOMAIN fw.result.out : fw.result.out[c] # 0

LossReturned == pm.phase = "called"

\* the value of the returned loss for instance i (the scalar when the model
\* has no instance dimension)
LossAt(i) == IF pm.model.has_n_instances THEN pm.loss[i] ELSE pm.loss

\* equality of two fractions
FracEq(a, b) == a[1] * b[2] = b[1] * a[2]

RECURSIVE SumOver(_, _)
SumOver(f, S) ==
    IF S = {} THEN 0
    ELSE LET x == CHOOSE y \in S : TRUE IN f[x] + SumOver(f, S \ {x})

RECURSIVE ProdTo(_, _)
ProdTo(f, n) == IF n = 0 THEN 1 ELSE f[n] * ProdTo(f, n - 1)

\* the elements of parameter j in instance i
ElementsOf(j, i) ==
    {x \in DOMAIN pm.w : x[1] = "pretrained_weights" /\ x[2] = j /\ x[3] = i}

\* the squared differences of parameter j in instance i, summed
SquaredDiffs(j, i) ==
    SumOver([x \in ElementsOf(j, i) |->
               (pm.w[<<"subnetwork_params_summed", x[2], x[3], x[4], x[5]>>] - pm.w[x])
               * (pm.w[<<"subnetwork_params_summed", x[2], x[3], x[4], x[5]>>] - pm.w[x])],
            ElementsOf(j, i))

\* the mean over the parameters of each parameter's own mean squared
\* difference, for instance i, as a fraction
MeanOfMeans(i) ==
    LET n == Len(pm.shapes)
        size == [j \in 1..n |-> Cardinality(ElementsOf(j, i))]
        D == ProdTo(size, n)
    IN  <<SumTo([j \in 1..n |-> SquaredDiffs(j, i) * (D \div size[j])], n), n * D>>

\* the mean squared difference over all the elements of all the parameters
\* of instance i, as a fraction
PooledMean(i) ==
    LET n == Len(pm.shapes)
    IN  <<SumTo([j \in 1..n |-> SquaredDiffs(j, i)], n),
          SumTo([j \in 1..n |-> Cardinality(ElementsOf(j, i))], n)>>

EqualSizes ==
    \A j \in DOMAIN pm.shapes :
        Cardinality(ElementsOf(j, 1)) = Cardinality(ElementsOf(1, 1))

C10_OrderInvariant ==
    LossReturned =>
        \A param_map \in ParamMaps(Len(pm.shapes)) :
            calc_param_match_loss(pm.w, pm.shapes, pm.model, param_map,
                                  n_params(pm.shapes, pm.model)) = pm.loss

\* the loss was computed with a param_map that lists the second parameter
\* first, for parameters whose squared differences are nonzero and differ
C10_Witness ==
    /\ LossReturned
    /\ Len(pm.shapes) >= 2
    /\ pm.param_map[1] = <<2, 2>>
    /\ SquaredDiffs(1, 1) > 0
    /\ SquaredDiffs(2, 1) > 0
    /\ SquaredDiffs(1, 1) # SquaredDiffs(2, 1)

(***************************************************************************)
(* Claims about the top-k L2 loss, checked under SpecTopkL2.               *)
(***************************************************************************)
TopkL2Returned == fn.phase = "called" /\ fn.name = "calc_topk_l2_full_rank"

\* the value of the returned loss for instance i
TopkL2At(i) == IF fn.c.model.has_n_instances THEN fn.result[i] ELSE fn.result

\* the subnetworks the mask selects for sample b of instance i
SelectedSubnets(b, i) == {kk \in 1..fn.c.k : fn.mask[<<b, i, kk>>]}

\* the squared Frobenius norm of the sum of the selected subnetworks of
\* parameter j, for sample b of instance i
SelectedFrobenius(j, b, i) ==
    LET entries == {x \in DOMAIN fn.w : x[1] = j /\ x[2] = i /\ x[3] = 1}
        total == [x \in entries |->
                    SumOver([kk \in SelectedSubnets(b, i) |-> fn.w[<<j, i, kk, x[4], x[5]>>]],
                            SelectedSubnets(b, i))]
    IN  SumOver([x \in entries |-> total[x] * total[x]], entries)

\* the mean over the batch of the summed norms, over the number of elements
\* of the parameters of one instance, as a fraction
MeanSelectedNorm(i) ==
    LET n == Len(fn.c.shapes)
    IN  <<SumTo([b \in 1..fn.c.batch |->
                   SumTo([j \in 1..n |-> SelectedFrobenius(j, b, i)], n)],
                fn.c.batch),
          fn.c.batch * SumTo([j \in 1..n |-> RowsOf(fn.c.shapes[j]) * fn.c.shapes[j].d_out],
                             n)>>

\* the masks of TestCalcTopkL2
FixtureMaskTFF == [c \in MaskCells(1, [n_instances |-> 1], 3) |-> c[3] = 1]
FixtureMaskTTT == [c \in MaskCells(1, [n_instances |-> 1], 3) |-> TRUE]
FixtureMaskTwoInstances ==
    [c \in MaskCells(2, [n_instances |-> 2], 2) |->
        c \in {<<1, 1, 1>>, <<1, 2, 2>>, <<2, 1, 2>>, <<2, 2, 1>>, <<2, 2, 2>>}]

AllOnes == \A x \in DOMAIN fn.w : fn.w[x] = 1

\* C11: the top-k L2 loss is, per instance, the mean over the batch of the
\* sum over the parameter matrices of the squared Frobenius norm of the sum
\* of the subnetworks the mask selects, divided by n_params; a subnetwork
\* whose mask entry is False contributes nothing.  On the all-ones fixtures
\* it is 1 for [[T,F,F]], 9 for [[T,T,T]] and [1, 5/2] for the two-instance
\* mask.
C11_TopkL2IsMeanSelectedNorm ==
    TopkL2Returned =>
        /\ fn.c.model.has_n_instances => DOMAIN fn.result = 1..fn.c.model.n_instances
        /\ \A i \in 1..fn.c.model.n_instances :
            /\ TopkL2At(i)[2] > 0
            /\ FracEq(TopkL2At(i), MeanSelectedNorm(i))
        /\ (fn.c \in TopkL2Fixtures /\ AllOnes) =>
            /\ fn.mask = FixtureMaskTFF => FracEq(fn.result, <<1, 1>>)
            /\ fn.mask = FixtureMaskTTT => FracEq(fn.result, <<9, 1>>)
            /\ fn.mask = FixtureMaskTwoInstances =>
                FracEq(fn.result[1], <<1, 1>>) /\ FracEq(fn.result[2], <<5, 2>>)

\* the loss of the two-instance fixture was computed: instance 2 has a
\* sample with one and a sample with two selected subnetworks
C11_Witness ==
    /\ TopkL2Returned
    /\ fn.c \in TopkL2Fixtures
    /\ fn.mask = FixtureMaskTwoInstances
    /\ FracEq(fn.result[2], <<5, 2>>)

(***************************************************************************)
(* Claims about the reconstruction loss, checked under SpecReconMse.       *)
(***************************************************************************)
ReconReturned == fn.phase = "called" /\ fn.name = "calc_recon_mse"

ReconAt(i) == IF fn.c.model.has_n_instances THEN fn.result[i] ELSE fn.result

\* the entries of instance i (of every instance when the model has no
\* instance dimension)
InstanceSlice(i) ==
    {x \in DOMAIN fn.output : fn.c.model.has_n_instances => x[2] = i}

\* the mean squared error over the entries of instance i only
SliceMse(i) ==
    <<SumOver([x \in InstanceSlice(i) |->
                 (fn.output[x] - fn.labels[x]) * (fn.output[x] - fn.labels[x])],
              InstanceSlice(i)),
      Cardinality(InstanceSlice(i))>>

InOptimize == op # Idle

\* the iterations of the loop that ran to their end
Iterations == Len(op.batches)

BatchesPerPass == op.args.dataloader.n_batches

\* no call of next() left the loop with StopIteration
StopIterationNeverRaised == op.raised # "StopIteration"

\* every iteration the loop entered has ended with a batch, and the loop
\* returns only after the iteration config.steps
EachIterationHasBatch ==
    /\ op.phase # "raised"
    /\ Iterations = op.step
    /\ op.phase = "returned" => Iterations = op.args.config.steps + 1

\* epoch counts the exhausted passes, and the iteration that met the
\* exhaustion used the first batch of the new pass
EpochCountsExhaustions ==
    Iterations > 0 =>
        /\ op.epoch = (Iterations - 1) \div BatchesPerPass
        /\ op.data_iter = ((Iterations - 1) % BatchesPerPass) + 1

\* C13: with a loader of at least one batch per pass, every iteration of
\* the loop obtains a batch, an exhausted pass adds one to epoch and the
\* first batch of the fresh iterator is used in the same iteration, and the
\* run goes on to the final step.
C13_ExhaustionNeverFatal ==
    (InOptimize /\ BatchesPerPass >= 1) =>
        StopIterationNeverRaised /\ EachIterationHasBatch /\ EpochCountsExhaustions

\* the part of C13 about StopIteration alone
C13_StopIterationHandled ==
    (InOptimize /\ BatchesPerPass >= 1) =>
        /\ StopIterationNeverRaised
        /\ EpochCountsExhaustions
        /\ op.raised = Ok => Iterations = op.step

\* the batch the iteration t (from 1) trains on when nothing but the
\* training loop touches the data source
ReferenceBatch(dataloader, t) ==
    IF dataloader.kind = "generated" THEN t - 1 ELSE (t - 1) % dataloader.n_batches

\* C14: the batches the SPD parameters are trained on, and so the sequence
\* of SPD parameters, are those of the run without logging, plotting and
\* checkpoints, whatever print_freq, image_freq, save_freq, out_dir,
\* wandb_project and plot_results_fn are.
C14_SideEffectsNeverAffectTraining ==
    InOptimize =>
        \A t \in 1..op.updates : op.batches[t] = <<ReferenceBatch(op.args.dataloader, t)>>

\* C15: no tensor of pretrained_model.all_decomposable_params() is written
\* by a run of optimize.
C15_TargetNeverMutated ==
    InOptimize => op.written \cap TargetParams = {}

C15_Witness ==
    /\ InOptimize
    /\ op.phase = "returned"
    /\ op.updates >= 2
    /\ op.args.config.unit_norm_matrices
    /\ op.written = SpdParams

\* the run of optimize is over: it returned or raised
RunOver == op.phase \in {"returned", "raised"}

\* the checkpoint condition of C18 for the iteration step
CheckpointDue(step) ==
    \/ /\ op.args.config.save_freq # None
       /\ step > 0
       /\ step % op.args.config.save_freq[1] = 0
    \/ step = op.args.config.steps

\* the steps whose checkpoint spd_model_<step>.pth has been written
CheckpointSteps == {ckpt.step : ckpt \in op.checkpoints}

\* the checkpoints written are those due, each holding the state after
\* exactly step optimizer updates, and none is written without out_dir
CheckpointsAsDue ==
    /\ op.args.out_dir = "None" => op.checkpoints = {}
    /\ op.args.out_dir # "None" =>
          CheckpointSteps = {step \in 0..(Iterations - 1) : CheckpointDue(step)}
    /\ \A ckpt \in op.checkpoints : ckpt.updates = ckpt.step
    /\ 0 \notin CheckpointSteps

\* C18: with out_dir given a checkpoint is written exactly at the iterations
\* where save_freq divides step > 0 or step = config.steps, so the final
\* step's checkpoint is always written and none at step 0; the checkpoint
\* of step s holds the state after exactly s updates; without out_dir none
\* is written.  (The data loader yields at least one batch per pass.)
C18_CheckpointsExactlyWhenDue ==
    InOptimize =>
        /\ CheckpointsAsDue
        /\ (RunOver /\ op.args.out_dir # "None" /\ BatchesPerPass >= 1) =>
              op.args.config.steps \in CheckpointSteps

\* the part of C18 that does not depend on the run reaching its last step
C18_CheckpointsOfCompletedIterations == InOptimize => CheckpointsAsDue

(***************************************************************************)
(* Claims about the order of the blocks of an iteration, checked under     *)
(* SpecBlocks, and about the assertions before the loop, under SpecSetup   *)
(***************************************************************************)
Stepping == op.phase = "stepping"

\* the operations C21 lists, in its order, for a step with or without topk
\* and with or without a gradient step
ListedOrder(with_topk, with_update) ==
    <<"batch", "target_forward", "spd_forward", "attributions">>
    \o (IF with_topk THEN <<"topk_mask", "masked_forward">> ELSE <<>>)
    \o <<"sum_loss">>
    \o (IF with_update THEN <<"backward", "opt_step">> ELSE <<>>)

IsListed(block) == block \notin {"side_effects", "fix_gradients"}

\* the listed operations the current iteration has run so far
ListedTrace == SelectSeq(op.trace, IsListed)

IsPrefix(a, b) == Len(a) <= Len(b) /\ a = SubSeq(b, 1, Len(a))

\* the pass, the attributions and the mask are those of the step and of the
\* current parameter values
OfThisStep(x) == x.step = op.step /\ x.version = op.version

\* C21: the operations of an iteration run in the listed order, the top-k
\* mask and the masked pass only when topk is set, and the mask of a step
\* comes from the attributions of the same step's unmasked pass, at the
\* same parameter values.
C21_OperationsInOrder ==
    Stepping =>
        LET order == ListedOrder(op.config.topk # None, op.step # op.config.steps)
        IN  /\ IsPrefix(ListedTrace, order)
            /\ op.pc = "end" => ListedTrace = order
            /\ op.pc \in {"topk_mask", "sum_loss"} =>
                  OfThisStep(op.pass) /\ OfThisStep(op.attributions)
            /\ op.pc = "masked_forward" => OfThisStep(op.mask)
            /\ (op.masked_pass # None /\ op.masked_pass.step = op.step) =>
                  op.masked_pass.mask = [step |-> op.masked_pass.step,
                                         version |-> op.masked_pass.version]

\* the second iteration of a run with topk is at its masked pass
C21_Witness ==
    /\ Stepping
    /\ op.config.topk # None
    /\ op.step = 1
    /\ op.version = 1
    /\ op.pc = "sum_loss"
    /\ op.trace = <<"batch", "target_forward", "spd_forward", "attributions", "topk_mask",
                    "masked_forward">>
    /\ op.masked_pass.mask = [step |-> 1, version |-> 1]

\* C22: with unit_norm_matrices every optimizer update is applied to the
\* gradients of the same iteration's backward pass after one call of
\* fix_normalized_adam_gradients, made between loss.backward() and
\* opt.step().
C22_UpdatesUseProjectedGradients ==
    (op.phase # "initializing" /\ op.config.unit_norm_matrices) =>
        /\ \A i \in 1..Len(op.updates) :
              /\ op.updates[i].grad = [step |-> op.updates[i].step, projected |-> TRUE]
              /\ op.updates[i].fixes = 1
        /\ (Stepping /\ op.pc = "end" /\ op.step # op.config.steps) =>
              SelectSeq(op.trace, LAMBDA b : b \in {"backward", "fix_gradients", "opt_step"})
                  = <<"backward", "fix_gradients", "opt_step">>

C22_Witness ==
    /\ op.phase = "finished"
    /\ op.config.unit_norm_matrices
    /\ Len(op.updates) = 2
    /\ op.updates[2] = [step |-> 1, grad |-> [step |-> 1, projected |-> TRUE], fixes |-> 1]

\* C23: with unit_norm_matrices no forward pass, loss or checkpoint uses
\* factor matrices that an optimizer step changed and that were not
\* normalised since: set_matrices_to_unit_norm runs first in every
\* iteration, the final one included.
C23_UsesNormalisedMatrices ==
    (op.phase # "initializing" /\ op.config.unit_norm_matrices) =>
        /\ \A use \in op.uses : ~use.dirty
        /\ \A ckpt \in op.checkpoints : ~ckpt.dirty
        /\ (Stepping /\ op.pc \notin {"unit_norm", "end"}) => ~op.dirty \/ "opt_step" \in
              {op.trace[i] : i \in 1..Len(op.trace)}

C23_Witness ==
    /\ op.phase = "finished"
    /\ op.config.unit_norm_matrices
    /\ op.config.steps = 2
    /\ [step |-> 2, version |-> 2, dirty |-> FALSE] \in op.checkpoints
    /\ [step |-> 1, version |-> 1, dirty |-> FALSE] \in op.checkpoints
    /\ ~op.dirty

BlocksRun == {op.trace[i] : i \in 1..Len(op.trace)}

\* the counts of iterations, backward passes and updates of C24
RunsAsClaimed ==
    /\ op.phase = "initializing" => op.iterations = 0
    /\ op.phase = "finished" =>
          /\ op.iterations = op.config.steps + 1
          /\ op.backwards = op.config.steps
          /\ Len(op.updates) = op.config.steps
          /\ \A i \in 1..Len(op.updates) : op.updates[i].step = i - 1
    /\ (Stepping /\ op.step = op.config.steps) =>
          /\ BlocksRun \cap {"backward", "fix_gradients", "opt_step"} = {}
          /\ op.version = op.config.steps

\* C24: a run goes initializing -> stepping -> finished and ends: the loop
\* runs config.steps + 1 iterations and applies config.steps optimizer
\* updates, one backward pass and one update in each of the iterations
\* 0..steps-1 and none in the iteration steps.
C24_RunEndsAfterStepsUpdates ==
    op.phase \in {"initializing", "stepping", "finished"} /\ RunsAsClaimed

\* the part of C24 that holds of the runs that do not raise
C24_IterationsOfFinishedRuns == op.phase # "raised" => RunsAsClaimed

\* the arguments pass the assertions of lines 486-490
ParamMapFits ==
    /\ op.param_map # None
    /\ KeysOf(op.param_map) = op.target_keys
    /\ ValuesOf(op.param_map) = op.model_keys

IsSetupAssertion(raised) == raised \in {AssertParamMap, AssertParamMapKeys, AssertParamMapValues}

\* C25: with param_match_coeff set, optimize fails with an assertion before
\* the first step, with no forward pass and no update, unless param_map is
\* given, its keys are those of the target's decomposable parameters and
\* its values those of the model's summed parameters; when they are, none
\* of these assertions fails.
C25_ParamMapCheckedBeforeLoop ==
    op.phase # "initializing" =>
        /\ (op.config.param_match_coeff # None /\ ~ParamMapFits) =>
              /\ op.phase = "raised"
              /\ IsSetupAssertion(op.raised)
              /\ op.iterations = 0 /\ op.pass = None /\ op.updates = <<>>
        /\ (op.config.param_match_coeff = None \/ ParamMapFits) => ~IsSetupAssertion(op.raised)

\* a param_map with the target's keys and not the model's
C25_Witness ==
    /\ op.phase = "raised"
    /\ op.raised = AssertParamMapValues
    /\ op.param_map = [x \in {"W", "W_T"} |-> "W"]
    /\ op.target_keys = {"W", "W_T"}
    /\ op.model_keys = {"W", "W_T"}

(***************************************************************************)
(* Claims about the total loss                                             *)
(***************************************************************************)
TotalLossComputed == fn.phase = "called" /\ fn.name = "total_loss" /\ fn.result.raised = Ok

\* the terms whose coefficient is set
TermsSet == {LossTerms[i] : i \in {j \in 1..Len(LossTerms) : CoeffOf(fn.c, LossTerms[j]) # None}}

ValEq(x, y) ==
    \A i \in 1..Max(Len(x.num), Len(y.num)) :
        PolyCoeff(x.num, i) * y.den = PolyCoeff(y.num, i) * x.den

\* one value per instance if the model has an instance dimension,
\* otherwise a scalar
IsPerInstance(t) ==
    IF fn.model.has_n_instances
    THEN t.shape = <<fn.model.n_instances>> /\ DOMAIN t.at = 1..fn.model.n_instances
    ELSE t.shape = <<>> /\ DOMAIN t.at = 1..1

\* the mean over the instances of the term's per-instance values
MeanOverInstances(t) ==
    IF fn.model.has_n_instances
    THEN ValDiv(ValSumTo(t.at, fn.model.n_instances), fn.model.n_instances)
    ELSE t.at[1]

\* coefficient * mean over instances, for the terms whose coefficient is set
WeightedSum ==
    ValSumTo([i \in 1..Len(LossTerms) |->
                IF LossTerms[i] \in TermsSet
                THEN ValTimes(CoeffOf(fn.c, LossTerms[i]),
                              MeanOverInstances(fn.result.losses[LossTerms[i]]))
                ELSE Val(<<0, 1>>)],
             Len(LossTerms))

\* C26: in every step of optimize the total loss is the sum, over exactly
\* the terms whose coefficient is not None, of coefficient * (mean over the
\* instances of the term's per-instance value); every such term is reduced
\* to one value per instance when the model has an instance dimension and to
\* a scalar otherwise, and a term with coefficient 0 is still computed and
\* contributes 0.
C26_TotalLossIsWeightedSum ==
    TotalLossComputed =>
        /\ fn.result.added = TermsSet
        /\ \A term \in TermsSet :
            /\ term \in DOMAIN fn.result.losses
            /\ IsPerInstance(fn.result.losses[term])
        /\ ValEq(fn.result.loss, WeightedSum)
        /\ \A term \in TermsSet :
            CoeffOf(fn.c, term) = <<0, 1>> =>
                /\ term \in fn.result.evaluated
                /\ ValEq(ValTimes(CoeffOf(fn.c, term),
                                  MeanOverInstances(fn.result.losses[term])),
                         Val(<<0, 1>>))

\* a step of a model with two instances in which all seven terms are added,
\* the activation reconstruction with coefficient 0, and the loss is not 0
C26_Witness ==
    /\ TotalLossComputed
    /\ fn.model.n_instances = 2
    /\ TermsSet = {LossTerms[i] : i \in 1..Len(LossTerms)}
    /\ fn.c.act_recon_coeff = <<0, 1>>
    /\ ~ValEq(TensorMean(fn.result.losses["act_recon"]), Val(<<0, 1>>))
    /\ fn.result.losses["schatten"].at[1] # fn.result.losses["schatten"].at[2]
    /\ ~ValEq(fn.result.loss, Val(<<0, 1>>))

(***************************************************************************)
(* Claims about the subnetwork parameters of the TMS SPD models            *)
(***************************************************************************)
TmsRead == fn.phase = "read" /\ fn.name = "tms"

\* the index sets of a [n_instances, k, d_in, d_out] tensor and of its sum
\* over k, for "W" (features by hidden) and "W_T" (hidden by features)
SubnetIndices(name) ==
    IF name = "W"
    THEN (1..fn.sh.inst) \X (1..fn.sh.k) \X (1..fn.sh.d_in) \X (1..fn.sh.d_out)
    ELSE (1..fn.sh.inst) \X (1..fn.sh.k) \X (1..fn.sh.d_out) \X (1..fn.sh.d_in)

SummedIndices(name) ==
    IF name = "W" THEN (1..fn.sh.inst) \X (1..fn.sh.d_in) \X (1..fn.sh.d_out)
    ELSE (1..fn.sh.inst) \X (1..fn.sh.d_out) \X (1..fn.sh.d_in)

\* C27: for each TMS SPD model and every parameter state,
\* all_subnetwork_params_summed()[name] is the sum over the subnetwork axis
\* k of all_subnetwork_params()[name], the two dictionaries have the same
\* keys, and the "W_T" entry is the "W" entry with its last two axes swapped.
C27_SummedIsSumOverSubnetworks ==
    TmsRead =>
        LET params == fn.result.params
            summed == fn.result.summed
        IN  /\ DOMAIN params = DOMAIN summed
            /\ DOMAIN summed = {"W", "W_T"}
            /\ \A name \in DOMAIN summed :
                /\ DOMAIN params[name] = SubnetIndices(name)
                /\ DOMAIN summed[name] = SummedIndices(name)
                /\ \A x \in SummedIndices(name) :
                    summed[name][x]
                    = SumTo([kk \in 1..fn.sh.k |-> params[name][<<x[1], kk, x[2], x[3]>>]],
                            fn.sh.k)
            /\ \A x \in SubnetIndices("W") :
                params["W_T"][<<x[1], x[2], x[4], x[3]>>] = params["W"][x]
            /\ \A x \in SummedIndices("W") :
                summed["W_T"][<<x[1], x[3], x[2]>>] = summed["W"][x]

\* a rank-penalty model with two subnetworks that differ, more features
\* than hidden dimensions, and a summed matrix that is not symmetric
C27_Witness ==
    /\ TmsRead
    /\ fn.sh.kind = "TMSSPDRankPenaltyModel"
    /\ fn.sh.k = 2
    /\ fn.sh.d_in = 2
    /\ fn.sh.d_out = 1
    /\ fn.result.params["W"][<<1, 1, 1, 1>>] # fn.result.params["W"][<<1, 2, 1, 1>>]
    /\ fn.result.summed["W"][<<1, 1, 1>>] # fn.result.summed["W"][<<1, 2, 1>>]

\* the subnetwork a parameter entry belongs to, counted from 0, or -1 for
\* the bias: k is the last axis of TMSSPDModel.A and the second axis of
\* every other matrix
SubnetOf(x) ==
    IF x[1] = "b_final" THEN -1
    ELSE IF fn.sh.kind = "TMSSPDModel" /\ x[1] = "A" THEN x[4] - 1
    ELSE x[3] - 1

\* C28: between set_subnet_to_zero(idx) and restore_subnet(idx, stored_vals)
\* the parameters of subnetwork idx are all zero and those of every other
\* subnetwork and the bias are unchanged; after restore_subnet with the
\* returned values every parameter has its value of before the first call.
C28_ZeroThenRestoreRoundTrip ==
    /\ (fn.name = "tms" /\ fn.phase = "zeroed") =>
        /\ \A x \in DOMAIN fn.p :
            IF SubnetOf(x) = fn.subnet_idx THEN fn.p[x] = 0 ELSE fn.p[x] = fn.before[x]
        /\ \A name \in {"W", "W_T"} : \A x \in SubnetIndices(name) :
            all_subnetwork_params(fn.p, fn.sh)[name][x]
            = IF x[2] = fn.subnet_idx + 1 THEN 0
              ELSE all_subnetwork_params(fn.before, fn.sh)[name][x]
    /\ (fn.name = "tms" /\ fn.phase = "restored") => fn.p = fn.before

\* the second of two subnetworks, with a changed entry, is restored
C28_Witness ==
    /\ fn.name = "tms"
    /\ fn.phase = "restored"
    /\ fn.sh.k = 2
    /\ fn.subnet_idx = 1
    /\ \E x \in DOMAIN fn.p : SubnetOf(x) = 1 /\ fn.p[x] = 2
    /\ \E x \in DOMAIN fn.p : SubnetOf(x) = 0 /\ fn.p[x] = -1

(***************************************************************************)
(* Claims about permute_to_identity                                        *)
(***************************************************************************)
PermuteCalled == fn.phase = "called" /\ fn.name = "permute_to_identity"

\* the entry of the result, or of x, is the maximum of column c of x
IsColumnMax(v, c) ==
    /\ \E r \in 1..Len(fn.x) : fn.x[r][c + 1] = v
    /\ \A r \in 1..Len(fn.x) : fn.x[r][c + 1] <= v

\* the first row that holds the maximum of column c
FirstMaxRow(c) ==
    CHOOSE r \in 0..(Len(fn.x) - 1) :
        /\ IsColumnMax(fn.x[r + 1][c + 1], c)
        /\ \A s \in 0..(r - 1) : ~IsColumnMax(fn.x[s + 1][c + 1], c)

C30_RowOrderIsPermutation ==
    PermuteCalled =>
        LET n == Len(fn.x)
        IN  /\ fn.result.raised = Ok
            /\ Len(fn.result.indices) = n
            /\ \A r \in 0..(n - 1) :
                Cardinality({j \in 1..n : fn.result.indices[j] = r}) = 1
            /\ Len(fn.result.out_rows) = n
            /\ \A j \in 1..n : fn.result.out_rows[j] = fn.x[fn.result.indices[j] + 1]

\* two of three columns have their maximum in row 2, and the row order is
\* not the identity
C30_Witness ==
    /\ PermuteCalled
    /\ Len(fn.x) = 3
    /\ FirstMaxRow(0) = 2
    /\ FirstMaxRow(1) = 2
    /\ FirstMaxRow(2) = 0
    /\ fn.result.raised = Ok
    /\ fn.result.indices = <<2, 1, 0>>

(***************************************************************************)
(* Claims about the loss terms                                             *)
(***************************************************************************)
LossComputed == fn.phase = "called" /\ fn.name = "loss"

TermSet == {LossTerms[i] : i \in 1..Len(LossTerms)}

\* the term is neither evaluated nor added
Skipped(term) == term \notin fn.result.evaluated /\ term \notin fn.result.added

\* C16: a term whose coefficient is None is skipped entirely: its loss
\* function is not evaluated and nothing is added to the loss for it.
C16_NoneCoeffSkipsTerm ==
    LossComputed => \A term \in TermSet : CoeffOf(fn.c, term) = None => Skipped(term)

\* C16 as amended: the same for every term but out_recon; the output
\* reconstruction loss is evaluated in every step, and nothing is added for
\* it when out_recon_coeff is None.
C16_NoneCoeffSkipsTermButOutRecon ==
    LossComputed =>
        /\ \A term \in TermSet \ {"out_recon"} : CoeffOf(fn.c, term) = None => Skipped(term)
        /\ "out_recon" \in fn.result.evaluated
        /\ fn.c.out_recon_coeff = None => "out_recon" \notin fn.result.added

C16_Witness ==
    /\ LossComputed
    /\ fn.result.raised = Ok
    /\ fn.c.out_recon_coeff = None
    /\ fn.c.topk_l2_coeff = None
    /\ fn.c.lp_sparsity_coeff = None
    /\ fn.result.evaluated = {"out_recon", "param_match", "topk_recon", "act_recon", "schatten"}
    /\ fn.result.added = {"param_match", "topk_recon", "act_recon", "schatten"}

(***************************************************************************)
(* Claims about the Lp sparsity loss                                       *)
(***************************************************************************)
LpComputed == fn.phase = "called" /\ fn.name = "calc_lp_sparsity_loss"

RECURSIVE Binomial(_, _)
Binomial(n, i) == IF i = 0 THEN 1 ELSE (Binomial(n, i - 1) * (n - i + 1)) \div i

\* pnorm / 2
HalfOfPnorm == fn.pnorm[1] \div (2 * fn.pnorm[2])

\* the coefficient of eps^i in (|a| / d_model_out + eps) ** (pnorm / 2),
\* times d_model_out ** (pnorm / 2)
FlooredPowerCoeff(a, i) ==
    Binomial(HalfOfPnorm, i) * IntPow(Abs(a), HalfOfPnorm - i) * IntPow(fn.d_model_out, i)

\* v is (|a| / d_model_out + eps) ** (pnorm / 2)
IsFlooredPower(v, a) ==
    /\ Len(v.num) = HalfOfPnorm + 1
    /\ \A i \in 0..HalfOfPnorm :
          v.num[i + 1] * IntPow(fn.d_model_out, HalfOfPnorm) = FlooredPowerCoeff(a, i) * v.den

\* v > 0 for every eps > 0
StrictlyPositive(v) ==
    /\ v.den > 0
    /\ \A i \in 1..Len(v.num) : v.num[i] >= 0
    /\ \E i \in 1..Len(v.num) : v.num[i] > 0

\* v is the mean over the batch of the sum over k of the floored powers of
\* instance inst
IsSumOverKMeanOverBatch(v, inst) ==
    LET cells == {x \in DOMAIN fn.attributions.v : x[2] = inst}
    IN  \A i \in 0..HalfOfPnorm :
          v.num[i + 1] * IntPow(fn.d_model_out, HalfOfPnorm) * fn.attributions.batch
            = SumOver([x \in cells |-> FlooredPowerCoeff(fn.attributions.v[x], i)], cells)
              * v.den

LrComputed == fn.phase = "called" /\ fn.name = "get_lr_with_warmup"

\* int(steps * lr_warmup_pct)
WarmupLength == (fn.c.steps * fn.c.lr_warmup_pct[1]) \div fn.c.lr_warmup_pct[2]

\* v is the fraction n / d
IsFraction(v, n, d) == v.kind = "rational" /\ v.v[1] * d = n * v.v[2]

\* v is the schedule value f(s, S) of the claim
IsScheduleValue(v, s, S) ==
    CASE fn.c.lr_schedule = "linear" -> IsFraction(v, S - s, S)
      [] fn.c.lr_schedule = "constant" -> IsFraction(v, 1, 1)
      [] fn.c.lr_schedule = "cosine" ->
            IF S = 1 THEN IsFraction(v, 1, 1)
            ELSE v.kind = "cos" /\ v.arg[1] * (S - 1) = s * v.arg[2]
      [] fn.c.lr_schedule = "exponential" ->
            /\ v.kind = "half_pow"
            /\ v.arg[1] * fn.c.lr_exponential_halflife[1]
                 = s * fn.c.lr_exponential_halflife[2] * v.arg[2]

\* the factor of lr is the one the claim gives for the step
IsClaimedLr ==
    IF fn.step[1] < WarmupLength THEN IsFraction(fn.result, fn.step[1], WarmupLength)
    ELSE IsScheduleValue(fn.result, fn.step[1] - WarmupLength, fn.c.steps - WarmupLength)

\* C20: for every config with steps >= 1, lr_warmup_pct in [0, 1] and any
\* schedule, and every step in 0..steps, get_lr_with_warmup is well defined
\* (no division by zero) and is lr * step / warmup_steps during warmup and
\* lr * f(step - warmup_steps, steps - warmup_steps) after it.
C20_LrWellDefined ==
    LrComputed => (fn.result # ZeroDivisionError /\ IsClaimedLr)

\* the value is the claimed one wherever the call returns
C20_LrWhereDefined ==
    (LrComputed /\ fn.result # ZeroDivisionError) => IsClaimedLr

\* the calls that raise are those of the linear schedule with
\* warmup_steps = steps at step = steps
C20_RaisesOnlyAfterFullWarmup ==
    LrComputed =>
        (fn.result = ZeroDivisionError
            <=> (fn.c.lr_schedule = "linear" /\ WarmupLength = fn.c.steps
                 /\ fn.step[1] = fn.c.steps))

(***************************************************************************)
(* Claims about the top-k mask, checked under SpecTopk.                    *)
(***************************************************************************)
Masked == tk.phase = "masked"

DropLast(t) ==
    Tensor(t.batch, t.inst, t.has_inst, t.k - 1,
           [x \in Cells(t.batch, t.inst, t.k - 1) |-> t.v[x]])

\* C17: with distil_from_target and topk set, the step's mask has the shape
\* [..., k] of the attributions, its entry for the last subnetwork is True
\* for every sample and instance, and its first k-1 entries are a top-k
\* mask of the attribution scores of the first k-1 subnetworks.
C17_DistilMaskKeepsLastSubnet ==
    (Masked /\ tk.config.distil_from_target) =>
        LET mask == tk.topk_mask
            attributions == tk.attributions
        IN  /\ Shape(mask) = Shape(attributions)
            /\ DOMAIN mask.v = DOMAIN attributions.v
            /\ \A row \in Rows(attributions) : mask.v[<<row[1], row[2], attributions.k>>]
            /\ DropLast(mask) \in
                  calc_topk_mask(DropLast(attributions),
                                 StepTopk(tk.config, tk.n_active, attributions.batch),
                                 StepBatchTopk(tk.config))

\* a distilling step whose last subnetwork has the lowest score of its row
\* and is kept, while another subnetwork of the row is left out
C17_Witness ==
    /\ Masked
    /\ tk.config.distil_from_target
    /\ tk.attributions.k = 3
    /\ tk.attributions.v[<<1, 1, 3>>] = 0
    /\ tk.attributions.v[<<1, 1, 1>>] = 1
    /\ tk.attributions.v[<<1, 1, 2>>] = 1
    /\ tk.topk_mask.v[<<1, 1, 3>>]
    /\ \E x \in DOMAIN tk.topk_mask.v : ~tk.topk_mask.v[x]

FractionalPerSampleTopk(c) ==
    c.topk # None /\ ~c.batch_topk /\ ~IsInteger(c.topk)

\* C4: Config(...) with batch_topk=False and a non-integer topk raises at
\* construction and leaves no Config object, whatever the other fields are;
\* the integrality rule rejects no other Config (integer topk without
\* batch_topk, or any topk with batch_topk=True).
C4_FractionalTopkRejectedAtConstruction ==
    kwargs # None =>
        /\ FractionalPerSampleTopk(kwargs) =>
              (config = None /\ config_error = MsgTopkInteger)
        /\ config_error = MsgTopkInteger => FractionalPerSampleTopk(kwargs)

C4_Witness ==
    /\ kwargs # None
    /\ FractionalPerSampleTopk(kwargs)
    /\ config = None
    /\ config_error = MsgTopkInteger

\* C6: construction fails whenever a coefficient or option comes without its
\* companion (lp_sparsity_coeff/pnorm, topk_recon_coeff/topk,
\* topk_l2_coeff/topk, schatten_coeff/schatten_pnorm,
\* lr_schedule="exponential"/lr_exponential_halflife), and each of these
\* rules raises only when its companion is absent.
C6_CompanionRequired ==
    kwargs # None =>
        /\ (kwargs.lp_sparsity_coeff # None /\ kwargs.pnorm = None) => config = None
        /\ (kwargs.topk_recon_coeff # None /\ kwargs.topk = None) => config = None
        /\ (kwargs.topk_l2_coeff # None /\ kwargs.topk = None) => config = None
        /\ (kwargs.schatten_coeff # None /\ kwargs.schatten_pnorm = None) => config = None
        /\ (kwargs.lr_schedule = "exponential" /\ kwargs.lr_exponential_halflife = None)
              => config = None
        /\ config_error = MsgPnorm => kwargs.pnorm = None
        /\ config_error \in {MsgTopkRecon, MsgTopkL2None, MsgTopkReconNone}
              => kwargs.topk = None
        /\ config_error = MsgSchattenPnorm => kwargs.schatten_pnorm = None
        /\ config_error = MsgHalflife => kwargs.lr_exponential_halflife = None

C6_Witness ==
    /\ kwargs # None
    /\ kwargs.lp_sparsity_coeff # None
    /\ kwargs.pnorm = None
    /\ config = None
    /\ config_error = MsgPnorm

\* C7: construction fails whenever spd_type="full_rank" comes with
\* schatten_coeff, unit_norm_matrices=True, m or a residual_mlp task config;
\* so a Config that exists with schatten_coeff set or unit_norm_matrices=True
\* has spd_type="rank_penalty".
C7_RankPenaltyOnlyOptions ==
    /\ (kwargs # None /\ kwargs.spd_type = "full_rank"
          /\ (\/ kwargs.schatten_coeff # None
              \/ kwargs.unit_norm_matrices
              \/ kwargs.m # None
              \/ kwargs.task_config.task_name = "residual_mlp"))
        => config = None
    /\ (config # None /\ (config.schatten_coeff # None \/ config.unit_norm_matrices))
        => config.spd_type = "rank_penalty"

C7_Witness ==
    /\ kwargs # None
    /\ kwargs.spd_type = "full_rank"
    /\ kwargs.unit_norm_matrices
    /\ config = None
    /\ config_error = MsgUnitNorm

\* C8: for every Config that validate_model accepted, none of the
\* configuration-dependent assertions of an optimize step fails: not
\* "exact_topk only works if batch_topk is True", not "layer_acts_topk is not
\* None" (act_recon_coeff with a residual_mlp task), not "mask is not None"
\* (schatten_coeff without topk and without lp_sparsity_coeff).
C8_NoConfigAssertionAtCallTime ==
    step_assert \notin {AssertExactBatchTopk, AssertLayerActsTopk, AssertMask}

=============================================================================
